---- MODULE Spec2Model ----
(***************************************************************************)
(* Watermark pod autoscaler: the reconciliation driver                     *)
(* (watermarkpodautoscaler_controller.go) and the replica calculator       *)
(* (the ReplicaCalculator file, src/unnamed/part_001).                     *)
(*                                                                         *)
(* Conventions of the model                                                *)
(*  - time is counted in whole seconds (metav1.Time is serialised with a   *)
(*    precision of one second); a reconciliation is one atomic step, so    *)
(*    every time.Now() / metav1.Now() inside it reads the same `clock`.    *)
(*  - quantities are milli-values (resource.Quantity.MilliValue()).        *)
(*  - Spec.Tolerance and the two limit factors are float64 in the code;    *)
(*    the model writes the tolerance as a percentage (Tolerance = 50 is    *)
(*    0.5) and computes every product and quotient exactly, in integers.   *)
(*    The values drawn (0, 50, 100 percent) are exactly                    *)
(*    representable as float64 fractions, so the code's float arithmetic   *)
(*    on them is exact too.                                                *)
(*  - a nil pointer (MinReplicas, LastScaleTime, a watermark quantity)    *)
(*    is the value Nil.                                                    *)
(*  - condition messages are represented by their format argument only.    *)
(***************************************************************************)
EXTENDS Integers, Sequences, FiniteSets, TLC

\* ---------------------------------------------------------------- bounds
\* replica counts of the target range over 0..MaxRep
MaxRep == 4
\* the wall clock ranges over 0..MaxTime seconds
MaxTime == 2
\* the pod lister reports 0..MaxReady ready pods
MaxReady == 2
\* the pod lister and the metrics client name at most MaxPods pods
MaxPods == 2

\* nil pointer
Nil == -1

\* the ends of int32
MaxInt32 == 2147483647
MinInt32 == (-MaxInt32) - 1

\* What converting a float64 that is not finite (+Inf, NaN) to an integer
\* yields: the Go specification leaves it to the implementation; the builds
\* give the lowest value (amd64) or the highest (arm64).  The outcome of an
\* int64 conversion is represented by that of the int32 one.
ConvOutcomes == {MinInt32, MaxInt32}

\* ---------------------------------------------------------------- helpers
Max2(a, b) == IF a >= b THEN a ELSE b
Min2(a, b) == IF a <= b THEN a ELSE b

\* math.Floor(a/b) and math.Ceil(a/b) for a >= 0, b > 0
FloorDiv(a, b) == a \div b
CeilDiv(a, b) == (a + b - 1) \div b

\* ------------------------------------------------- replica calculator
\* getReplicaCount dividing by the tolerance-adjusted watermarks
getReplicaCount_adjusted(currentReplicas, tolerance, usageNum, usageDen, lowMark, highMark, conv) ==
  LET utilization == usageNum \div usageDen
      aboveHigh == usageNum * 100 > usageDen * highMark * (100 + tolerance)
      belowLow == usageNum * 100 < usageDen * lowMark * (100 - tolerance)
  IN  CASE aboveHigh ->
             <<CeilDiv(currentReplicas * usageNum * 100, usageDen * highMark * (100 + tolerance)),
               utilization>>
        [] ~aboveHigh /\ belowLow ->
             <<Max2(FloorDiv(currentReplicas * usageNum * 100,
                             usageDen * lowMark * (100 - tolerance)), 1), utilization>>
        [] OTHER -> <<currentReplicas, utilization>>

\* getReplicaCount: adjustedUsage is the rational usageNum/usageDen
\* (usageDen is `averaged`).  Returns <<replicaCount, utilization>>.
\* With usageDen = 0 the float64 adjustedUsage is NaN (0/0), for which both
\* comparisons are false, or +Inf, which is above the high mark; conv is what
\* the integer conversions of such a value yield.
getReplicaCount(currentReplicas, tolerance, usageNum, usageDen, lowMark, highMark, conv) ==
  IF usageDen = 0
  THEN IF usageNum = 0 THEN <<currentReplicas, conv>> ELSE <<conv, conv>>
  ELSE
  LET utilization == usageNum \div usageDen
      \* adjustedUsage > highMark + tolerance*highMark
      aboveHigh == usageNum * 100 > usageDen * highMark * (100 + tolerance)
      \* adjustedUsage < lowMark - tolerance*lowMark
      belowLow == usageNum * 100 < usageDen * lowMark * (100 - tolerance)
  IN  CASE aboveHigh ->
             <<CeilDiv(currentReplicas * usageNum, usageDen * highMark), utilization>>
        [] ~aboveHigh /\ belowLow ->
             <<Max2(FloorDiv(currentReplicas * usageNum, usageDen * lowMark), 1), utilization>>
        [] OTHER -> <<currentReplicas, utilization>>

\* A ReplicaCalculation, or the error of the calculator.
CalcError == [err |-> TRUE, replicaCount |-> 0, utilization |-> 0, timestamp |-> 0]

\* GetExternalMetricReplicas.  sample = [ok, usage, ready, ts, conv]:
\*   ready  what getReadyPodsCount counts (0: it fails),
\*   ok     whether metricsClient.GetExternalMetric succeeds,
\*   usage  the sum of the returned values, ts their timestamp.
GetExternalMetricReplicas(target, metric, wpa, sample) ==
  IF sample.ready = 0 \/ ~sample.ok THEN CalcError
  ELSE LET averaged == IF wpa.Algorithm = "average" THEN sample.ready ELSE 1
           rc == getReplicaCount(sample.ready, wpa.Tolerance, sample.usage, averaged,
                                 metric.LowWatermark, metric.HighWatermark, sample.conv)
       IN  [err |-> FALSE, replicaCount |-> rc[1], utilization |-> rc[2],
            timestamp |-> sample.ts]

\* GetResourceReplicas handing the ready-pod count to getReplicaCount
GetResourceReplicas_ready(target, metric, wpa, sample) ==
  IF ~sample.ok THEN CalcError
  ELSE LET averaged == IF wpa.Algorithm = "average" THEN sample.ready ELSE 1
           rc == getReplicaCount(sample.ready, wpa.Tolerance, sample.usage, averaged,
                                 metric.LowWatermark, metric.HighWatermark, sample.conv)
       IN  [err |-> FALSE, replicaCount |-> rc[1], utilization |-> rc[2],
            timestamp |-> sample.ts]

\* GetResourceReplicas.  sample = [ok, usage, ready, ts, conv]:
\*   ok     whether GetResourceMetric and the pod listing succeed and metrics
\*          are left once those of the ignored pods are removed,
\*   ready  len(readyPods) of groupPods: 0 when the metrics left belong to
\*          pods that are not listed,
\*   usage  the sum of the metrics left, ts their timestamp.
GetResourceReplicas(target, metric, wpa, sample) ==
  IF ~sample.ok THEN CalcError
  ELSE LET averaged == IF wpa.Algorithm = "average" THEN sample.ready ELSE 1
           rc == getReplicaCount(target.statusReplicas, wpa.Tolerance, sample.usage, averaged,
                                 metric.LowWatermark, metric.HighWatermark, sample.conv)
       IN  [err |-> FALSE, replicaCount |-> rc[1], utilization |-> rc[2],
            timestamp |-> sample.ts]

\* ------------------------------------------------------------ conditions
\* setConditionInList: the list with the condition of that type set; the
\* transition time moves only when the status value changes.
\* the search stopping one entry short of the end of the list
RECURSIVE IndexOfType_short(_, _, _)
IndexOfType_short(list, conditionType, i) ==
  IF i >= Len(list) THEN 0
  ELSE IF list[i].type = conditionType THEN i
  ELSE IndexOfType_short(list, conditionType, i + 1)

RECURSIVE IndexOfType(_, _, _)
IndexOfType(list, conditionType, i) ==
  IF i > Len(list) THEN 0
  ELSE IF list[i].type = conditionType THEN i
  ELSE IndexOfType(list, conditionType, i + 1)

\* setConditionInList taking the transition time at every call
setConditionInList_restamp(inputList, conditionType, status, reason, arg, now) ==
  LET found == IndexOfType(inputList, conditionType, 1)
      resList == IF found = 0
                 THEN Append(inputList, [type |-> conditionType, status |-> "",
                                         reason |-> "", arg |-> 0, ltt |-> Nil])
                 ELSE inputList
      i == IF found = 0 THEN Len(resList) ELSE found
  IN  [resList EXCEPT ![i] = [type |-> conditionType,
                              status |-> status,
                              reason |-> reason,
                              arg |-> arg,
                              ltt |-> now]]

\* setConditionInList taking the transition time when the reason changes too
setConditionInList_reason(inputList, conditionType, status, reason, arg, now) ==
  LET found == IndexOfType(inputList, conditionType, 1)
      resList == IF found = 0
                 THEN Append(inputList, [type |-> conditionType, status |-> "",
                                         reason |-> "", arg |-> 0, ltt |-> Nil])
                 ELSE inputList
      i == IF found = 0 THEN Len(resList) ELSE found
      existing == resList[i]
  IN  [resList EXCEPT ![i] = [type |-> conditionType,
                              status |-> status,
                              reason |-> reason,
                              arg |-> arg,
                              ltt |-> IF existing.status # status \/ existing.reason # reason
                                      THEN now ELSE existing.ltt]]

setConditionInList(inputList, conditionType, status, reason, arg, now) ==
  LET found == IndexOfType(inputList, conditionType, 1)
      resList == IF found = 0
                 THEN Append(inputList, [type |-> conditionType, status |-> "",
                                         reason |-> "", arg |-> 0, ltt |-> Nil])
                 ELSE inputList
      i == IF found = 0 THEN Len(resList) ELSE found
      existing == resList[i]
  IN  [resList EXCEPT ![i] = [type |-> conditionType,
                              status |-> status,
                              reason |-> reason,
                              arg |-> arg,
                              ltt |-> IF existing.status # status THEN now ELSE existing.ltt]]

\* setCondition on a status record
setCondition(st, conditionType, status, reason, arg, now) ==
  [st EXCEPT !.Conditions = setConditionInList(st.Conditions, conditionType, status, reason, arg, now)]

\* ------------------------------------------------------- metric aggregator
\* the test letting a proposal that equals the one kept so far replace it
takesOver_ties(replicas, replicaCountProposal) ==
  replicas = 0 \/ replicaCountProposal >= replicas

\* the test of computeReplicasForMetrics that lets a proposal replace the
\* one kept so far
takesOver(replicas, replicaCountProposal) ==
  replicas = 0 \/ replicaCountProposal > replicas

\* The replica calculation of one metric spec, dispatched on its type.
replicaCalc(target, metricSpec, wpa, sample) ==
  IF metricSpec.Type = "External"
  THEN GetExternalMetricReplicas(target, metricSpec, wpa, sample)
  ELSE GetResourceReplicas(target, metricSpec, wpa, sample)

\* the reason of the external branch given for a resource metric as well
FailedGetReason_external(metricSpec) == "FailedGetExternalMetric"

FailedGetReason(metricSpec) ==
  IF metricSpec.Type = "External" THEN "FailedGetExternalMetric" ELSE "FailedGetResourceMetric"

\* the loop calling the replica calculation of the specs that follow one that
\* failed before it returns the error
RECURSIVE metricsLoop_goeson(_, _, _, _, _, _, _)
metricsLoop_goeson(wpa, scale, samples, i, acc, st, now) ==
  IF i > Len(wpa.Metrics)
  THEN [err |-> FALSE, replicas |-> acc.replicas, metric |-> acc.metric,
        statuses |-> acc.statuses, timestamp |-> acc.timestamp, event |-> "",
        called |-> acc.called,
        st |-> setCondition(st, "ScalingActive", "True", "ValidMetricFound", acc.metric, now)]
  ELSE LET metricSpec == wpa.Metrics[i]
           rest == metricsLoop_goeson(wpa, scale, samples, i + 1,
                                      [acc EXCEPT !.called = <<>>], st, now)
           failed(called) ==
             [err |-> TRUE, replicas |-> 0, metric |-> 0, statuses |-> <<>>,
              timestamp |-> 0, event |-> FailedGetReason(metricSpec),
              called |-> called \o rest.called,
              st |-> setCondition(st, "ScalingActive", "False",
                                  FailedGetReason(metricSpec), 0, now)]
       IN  IF metricSpec.HighWatermark = Nil \/ metricSpec.LowWatermark = Nil
           THEN failed(acc.called)
           ELSE LET rc == replicaCalc(scale, metricSpec, wpa, samples[i])
                    called == Append(acc.called, i)
                IN  IF rc.err THEN failed(called)
                    ELSE LET statuses == [acc.statuses EXCEPT ![i] =
                                            [Type |-> metricSpec.Type, value |-> rc.utilization]]
                             next == IF takesOver(acc.replicas, rc.replicaCount)
                                     THEN [replicas |-> rc.replicaCount, metric |-> i,
                                           timestamp |-> rc.timestamp, statuses |-> statuses,
                                           called |-> called]
                                     ELSE [acc EXCEPT !.statuses = statuses, !.called = called]
                         IN  metricsLoop_goeson(wpa, scale, samples, i + 1, next, st, now)

\* The loop of computeReplicasForMetrics from spec i on; acc holds the named
\* results (replicas, metric, timestamp, statuses) and st the status whose
\* conditions the loop sets.  The metric name of spec i is i.  called lists
\* the specs whose replica calculation the loop has called.
RECURSIVE metricsLoop(_, _, _, _, _, _, _)
metricsLoop(wpa, scale, samples, i, acc, st, now) ==
  IF i > Len(wpa.Metrics)
  THEN [err |-> FALSE, replicas |-> acc.replicas, metric |-> acc.metric,
        statuses |-> acc.statuses, timestamp |-> acc.timestamp, event |-> "",
        called |-> acc.called,
        st |-> setCondition(st, "ScalingActive", "True", "ValidMetricFound", acc.metric, now)]
  ELSE LET metricSpec == wpa.Metrics[i]
           failed(called) ==
             [err |-> TRUE, replicas |-> 0, metric |-> 0, statuses |-> <<>>,
              timestamp |-> 0, event |-> FailedGetReason(metricSpec), called |-> called,
              st |-> setCondition(st, "ScalingActive", "False",
                                  FailedGetReason(metricSpec), 0, now)]
       IN  IF metricSpec.HighWatermark = Nil \/ metricSpec.LowWatermark = Nil
           THEN failed(acc.called)
           ELSE LET rc == replicaCalc(scale, metricSpec, wpa, samples[i])
                    called == Append(acc.called, i)
                IN  IF rc.err THEN failed(called)
                    ELSE LET statuses == [acc.statuses EXCEPT ![i] =
                                            [Type |-> metricSpec.Type, value |-> rc.utilization]]
                             next == IF takesOver(acc.replicas, rc.replicaCount)
                                     THEN [replicas |-> rc.replicaCount, metric |-> i,
                                           timestamp |-> rc.timestamp, statuses |-> statuses,
                                           called |-> called]
                                     ELSE [acc EXCEPT !.statuses = statuses, !.called = called]
                         IN  metricsLoop(wpa, scale, samples, i + 1, next, st, now)

\* a zero-valued autoscalingv2.MetricStatus
NoMetricStatus == [Type |-> "", value |-> 0]

computeReplicasForMetrics(wpa, scale, samples, st, now) ==
  metricsLoop(wpa, scale, samples, 1,
              [replicas |-> 0, metric |-> 0, timestamp |-> 0,
               statuses |-> [k \in 1..Len(wpa.Metrics) |-> NoMetricStatus],
               called |-> <<>>],
              st, now)

\* ------------------------------------------------------------ normalizer
\* Scaleup limit with the factor taken as a ratio instead of a percentage
calculateScaleUpLimit_ratio(wpa, currentReplicas) ==
  currentReplicas + Max2(1, wpa.ScaleUpLimitFactor * currentReplicas)

\* Scaleup limit: TO how much we can upscale
calculateScaleUpLimit(wpa, currentReplicas) ==
  currentReplicas + Max2(1, FloorDiv(wpa.ScaleUpLimitFactor * currentReplicas, 100))

\* Scaledown limit
calculateScaleDownLimit(wpa, currentReplicas) ==
  currentReplicas - Max2(1, FloorDiv(wpa.ScaleDownLimitFactor * currentReplicas, 100))

\* the minimum with the scale-down limit put where the policy minimum belongs
minimumAllowedReplicas_limit(wpa, currentReplicas, desiredReplicas, wpaMinReplicas) ==
  LET scaleDownLimit == calculateScaleDownLimit(wpa, currentReplicas)
  IN  CASE wpaMinReplicas = 0 -> <<1, "">>
        [] wpaMinReplicas # 0 /\ desiredReplicas < scaleDownLimit ->
             <<Max2(scaleDownLimit, wpaMinReplicas), "ScaleDownLimit">>
        [] OTHER -> <<scaleDownLimit, "TooFewReplicas">>

\* convertDesiredReplicasWithRules, the first switch:
\* <<minimumAllowedReplicas, possibleLimitingCondition>>
minimumAllowedReplicas(wpa, currentReplicas, desiredReplicas, wpaMinReplicas) ==
  LET scaleDownLimit == calculateScaleDownLimit(wpa, currentReplicas)
  IN  CASE wpaMinReplicas = 0 -> <<1, "">>
        [] wpaMinReplicas # 0 /\ desiredReplicas < scaleDownLimit ->
             <<Max2(scaleDownLimit, wpaMinReplicas), "ScaleDownLimit">>
        [] OTHER -> <<wpaMinReplicas, "TooFewReplicas">>

\* the maximum without the policy maximum over the scale-up limit
maximumAllowedReplicas_uncapped(wpa, currentReplicas, desiredReplicas, wpaMaxReplicas) ==
  LET scaleUpLimit == calculateScaleUpLimit(wpa, currentReplicas)
  IN  IF desiredReplicas > scaleUpLimit
      THEN <<scaleUpLimit, "ScaleUpLimit">>
      ELSE <<wpaMaxReplicas, "TooManyReplicas">>

\* convertDesiredReplicasWithRules, the scale-up branch:
\* <<maximumAllowedReplicas, possibleLimitingCondition>>
maximumAllowedReplicas(wpa, currentReplicas, desiredReplicas, wpaMaxReplicas) ==
  LET scaleUpLimit == calculateScaleUpLimit(wpa, currentReplicas)
  IN  IF desiredReplicas > scaleUpLimit
      THEN <<Min2(scaleUpLimit, wpaMaxReplicas), "ScaleUpLimit">>
      ELSE <<wpaMaxReplicas, "TooManyReplicas">>

\* convertDesiredReplicasWithRules: <<replicas, limiting condition>>
convertDesiredReplicasWithRules(wpa, currentReplicas, desiredReplicas, wpaMinReplicas, wpaMaxReplicas) ==
  LET lower == minimumAllowedReplicas(wpa, currentReplicas, desiredReplicas, wpaMinReplicas)
      upper == maximumAllowedReplicas(wpa, currentReplicas, desiredReplicas, wpaMaxReplicas)
  IN  IF desiredReplicas < lower[1] THEN lower
      ELSE IF desiredReplicas > upper[1] THEN upper
      ELSE <<desiredReplicas, "DesiredWithinRange">>

\* normalizeDesiredReplicas comparing the result with the current count
normalizeDesiredReplicas_current(wpa, st, currentReplicas, prenormalizedDesiredReplicas, now) ==
  LET minReplicas == IF wpa.MinReplicas # Nil THEN wpa.MinReplicas ELSE 0
      conv == convertDesiredReplicasWithRules(wpa, currentReplicas, prenormalizedDesiredReplicas,
                                              minReplicas, wpa.MaxReplicas)
  IN  <<conv[1],
        setCondition(st, "ScalingLimited",
                     IF conv[1] = currentReplicas THEN "False" ELSE "True",
                     conv[2], 0, now)>>

\* normalizeDesiredReplicas: <<replicas, status with ScalingLimited set>>
normalizeDesiredReplicas(wpa, st, currentReplicas, prenormalizedDesiredReplicas, now) ==
  LET minReplicas == IF wpa.MinReplicas # Nil THEN wpa.MinReplicas ELSE 0
      conv == convertDesiredReplicasWithRules(wpa, currentReplicas, prenormalizedDesiredReplicas,
                                              minReplicas, wpa.MaxReplicas)
  IN  <<conv[1],
        setCondition(st, "ScalingLimited",
                     IF conv[1] = prenormalizedDesiredReplicas THEN "False" ELSE "True",
                     conv[2], 0, now)>>

\* ---------------------------------------------------------- cooldown gate
\* canScale without the backoff flags
canScale_nobackoff(backoffUp, backoffDown, currentReplicas, desiredReplicas) ==
  desiredReplicas # currentReplicas

\* canScale
canScale(backoffUp, backoffDown, currentReplicas, desiredReplicas) ==
  IF desiredReplicas = currentReplicas THEN FALSE
  ELSE (~backoffUp /\ desiredReplicas > currentReplicas)
       \/ (~backoffDown /\ desiredReplicas < currentReplicas)

\* the downscale countdown taken over the upscale window
downscaleCountdown_upwindow(wpa, st, timestamp) ==
  st.LastScaleTime + wpa.UpscaleForbiddenWindowSeconds - timestamp

\* the countdowns of shouldScale, in seconds
downscaleCountdown(wpa, st, timestamp) ==
  st.LastScaleTime + wpa.DownscaleForbiddenWindowSeconds - timestamp

upscaleCountdown(wpa, st, timestamp) ==
  st.LastScaleTime + wpa.UpscaleForbiddenWindowSeconds - timestamp

\* shouldScale blocking a direction until its window is over and past
shouldScale_inclusive(wpa, st, currentReplicas, desiredReplicas, timestamp, now) ==
  IF st.LastScaleTime = Nil THEN <<TRUE, st>>
  ELSE LET backoffDown == downscaleCountdown(wpa, st, timestamp) >= 0
           backoffUp == upscaleCountdown(wpa, st, timestamp) >= 0
           st1 == IF backoffDown
                  THEN setCondition(st, "AbleToScale", "False", "BackoffDownscale", 0, now)
                  ELSE st
           st2 == IF backoffUp
                  THEN setCondition(st1, "AbleToScale", "False",
                                    IF backoffDown THEN "BackoffBoth" ELSE "BackoffUpscale", 0, now)
                  ELSE st1
       IN  <<canScale(backoffUp, backoffDown, currentReplicas, desiredReplicas), st2>>

\* shouldScale: <<rescale, status with the backoff condition set>>
shouldScale(wpa, st, currentReplicas, desiredReplicas, timestamp, now) ==
  IF st.LastScaleTime = Nil THEN <<TRUE, st>>
  ELSE LET backoffDown == downscaleCountdown(wpa, st, timestamp) > 0
           backoffUp == upscaleCountdown(wpa, st, timestamp) > 0
           st1 == IF backoffDown
                  THEN setCondition(st, "AbleToScale", "False", "BackoffDownscale", 0, now)
                  ELSE st
           st2 == IF backoffUp
                  THEN setCondition(st1, "AbleToScale", "False",
                                    IF backoffDown THEN "BackoffBoth" ELSE "BackoffUpscale", 0, now)
                  ELSE st1
       IN  <<canScale(backoffUp, backoffDown, currentReplicas, desiredReplicas), st2>>

\* ---------------------------------------------------------------- status
\* setStatus taking the scale time whatever rescale is
setStatus_stamped(st, currentReplicas, desiredReplicas, metricStatuses, rescale, now) ==
  [CurrentReplicas |-> currentReplicas,
   DesiredReplicas |-> desiredReplicas,
   CurrentMetrics  |-> metricStatuses,
   LastScaleTime   |-> now,
   Conditions      |-> st.Conditions]

\* setStatus
setStatus(st, currentReplicas, desiredReplicas, metricStatuses, rescale, now) ==
  [CurrentReplicas |-> currentReplicas,
   DesiredReplicas |-> desiredReplicas,
   CurrentMetrics  |-> metricStatuses,
   LastScaleTime   |-> IF rescale THEN now ELSE st.LastScaleTime,
   Conditions      |-> st.Conditions]

\* setCurrentReplicasInStatus taking the current count as the desired one too
setCurrentReplicasInStatus_desired(st, currentReplicas, now) ==
  setStatus(st, currentReplicas, currentReplicas, st.CurrentMetrics, FALSE, now)

\* setCurrentReplicasInStatus taking the scale time as a rescale does
setCurrentReplicasInStatus_rescaled(st, currentReplicas, now) ==
  setStatus(st, currentReplicas, st.DesiredReplicas, st.CurrentMetrics, TRUE, now)

\* setCurrentReplicasInStatus
setCurrentReplicasInStatus(st, currentReplicas, now) ==
  setStatus(st, currentReplicas, st.DesiredReplicas, st.CurrentMetrics, FALSE, now)

\* updateStatusIfNeeded: whether r.updateWPA is called
updateStatusIfNeeded(wpaStatusOriginal, st) == wpaStatusOriginal # st

\* ------------------------------------------------------------ reconcileWPA
\* the switch with the MaxReplicas case ahead of the disabled case
reconcilePath_maxfirst(wpa, currentScale) ==
  CASE currentScale.statusReplicas > wpa.MaxReplicas -> "max"
    [] currentScale.statusReplicas <= wpa.MaxReplicas /\ currentScale.specReplicas = 0 -> "disabled"
    [] currentScale.statusReplicas <= wpa.MaxReplicas /\ currentScale.specReplicas # 0
       /\ wpa.MinReplicas # Nil /\ currentScale.statusReplicas < wpa.MinReplicas -> "min"
    [] currentScale.statusReplicas <= wpa.MaxReplicas /\ currentScale.specReplicas # 0
       /\ ~(wpa.MinReplicas # Nil /\ currentScale.statusReplicas < wpa.MinReplicas)
       /\ currentScale.statusReplicas = 0 -> "zero"
    [] OTHER -> "metrics"

\* the switch with the zero case ahead of the MinReplicas case
reconcilePath_zerofirst(wpa, currentScale) ==
  CASE currentScale.specReplicas = 0 -> "disabled"
    [] currentScale.specReplicas # 0 /\ currentScale.statusReplicas > wpa.MaxReplicas -> "max"
    [] currentScale.specReplicas # 0 /\ currentScale.statusReplicas <= wpa.MaxReplicas
       /\ currentScale.statusReplicas = 0 -> "zero"
    [] currentScale.specReplicas # 0 /\ currentScale.statusReplicas <= wpa.MaxReplicas
       /\ currentScale.statusReplicas # 0
       /\ wpa.MinReplicas # Nil /\ currentScale.statusReplicas < wpa.MinReplicas -> "min"
    [] OTHER -> "metrics"

\* the switch of reconcileWPA on the scale that was read
reconcilePath(wpa, currentScale) ==
  CASE currentScale.specReplicas = 0 -> "disabled"
    [] currentScale.specReplicas # 0 /\ currentScale.statusReplicas > wpa.MaxReplicas -> "max"
    [] currentScale.specReplicas # 0 /\ currentScale.statusReplicas <= wpa.MaxReplicas
       /\ wpa.MinReplicas # Nil /\ currentScale.statusReplicas < wpa.MinReplicas -> "min"
    [] currentScale.specReplicas # 0 /\ currentScale.statusReplicas <= wpa.MaxReplicas
       /\ ~(wpa.MinReplicas # Nil /\ currentScale.statusReplicas < wpa.MinReplicas)
       /\ currentScale.statusReplicas = 0 -> "zero"
    [] OTHER -> "metrics"

\* the scale update issued without looking at DryRun
scaleUpdateIssued_always(wpa, rescale) == rescale

\* whether scaleClient.Update is called: inside `if rescale`, after the
\* DryRun early return
scaleUpdateIssued(wpa, rescale) == rescale /\ ~wpa.DryRun

\* the dry-run status without the scale time
dryRunStatus_unstamped(st, currentReplicas, desiredReplicas, metricStatuses, rescale, now) ==
  setStatus(st, currentReplicas, desiredReplicas, metricStatuses, FALSE, now)

\* the status set in the DryRun branch of `if rescale`
dryRunStatus(st, currentReplicas, desiredReplicas, metricStatuses, rescale, now) ==
  setStatus(st, currentReplicas, desiredReplicas, metricStatuses, rescale, now)

\* the events recorded before the status update, and after it when it
\* succeeds (ok) or fails (failed)
Events(before, ok, failed) == [before |-> before, ok |-> ok, failed |-> failed]

\* what Reconcile returns: reconcile.Result and the error
Result(requeue, requeueAfter, err) ==
  [Requeue |-> requeue, RequeueAfter |-> requeueAfter, err |-> err]

\* the writes with the status update ahead of the scale update
Mutations_statusfirst(updateCalled, statusCall) ==
  (IF statusCall THEN <<"status">> ELSE <<>>) \o (IF updateCalled THEN <<"scale">> ELSE <<>>)

\* The writes a run issues to the control plane, in order: the scale update
\* of `if rescale`, then the status update that ends every path.
Mutations(updateCalled, statusCall) ==
  (IF updateCalled THEN <<"scale">> ELSE <<>>) \o (IF statusCall THEN <<"status">> ELSE <<>>)

\* What a run of reconcileWPA leaves behind.
\*   st          the status handed to updateStatusIfNeeded
\*   statusCall  whether the status update is issued, persisted whether it succeeds
\*   err         whether reconcileWPA returns an error
\*   events      the reasons of the events recorded, in order
\*   final       the status of the instance in memory at the end
\*   result      what Reconcile returns, set by Reconcile
\*   panicAt     where a panic ended the run, "none" when none did
\*   fetched     whether computeReplicasForMetrics was called
\*   mutations   the writes issued to the control plane, in order
Outcome(path, pre, st, original, desired, rescale, updateCalled, updateOK, metricErr, statusOK, errOnStatus, events, now) ==
  LET statusCall == updateStatusIfNeeded(original, st)
      statusFailed == statusCall /\ ~statusOK
  IN  [path |-> path, fetched |-> pre.fetched,
       proposal |-> pre.proposal, metric |-> pre.metric, timestamp |-> pre.timestamp,
       desired |-> desired, rescale |-> rescale,
       updateCalled |-> updateCalled, updateOK |-> updateCalled /\ updateOK,
       written |-> IF updateCalled THEN desired ELSE Nil,
       metricErr |-> metricErr,
       st |-> st,
       statusCall |-> statusCall,
       mutations |-> Mutations(updateCalled, statusCall),
       persisted |-> statusCall /\ statusOK,
       err |-> errOnStatus /\ statusFailed,
       events |-> events.before \o (IF statusFailed THEN events.failed ELSE events.ok),
       final |-> IF statusFailed /\ ~errOnStatus
                 THEN setCondition(st, "AbleToScale", "False", "FailedUpdateReplicas", 0, now)
                 ELSE st,
       result |-> Result(FALSE, 0, FALSE),
       panicAt |-> "none"]

\* reconcileWPA from `if rescale` to its end
enact(wpa, path, pre, original, st, currentReplicas, desiredReplicas, metricStatuses, rescale, in, now) ==
  IF rescale
  THEN LET stReady == setCondition(st, "AbleToScale", "True", "ReadyForScale", 0, now)
       IN  IF ~scaleUpdateIssued(wpa, rescale)
           THEN \* DryRun mode: scaling change was inhibited
                Outcome(path, pre,
                        dryRunStatus(stReady, currentReplicas, desiredReplicas, metricStatuses, rescale, now),
                        original, desiredReplicas, rescale, FALSE, FALSE, FALSE, in.statusOK, TRUE,
                        Events(<<>>, <<>>, <<>>), now)
           ELSE IF ~in.updateOK
           THEN Outcome(path, pre,
                        setCurrentReplicasInStatus(
                          setCondition(stReady, "AbleToScale", "False", "FailedUpdateScale", 0, now),
                          currentReplicas, now),
                        original, desiredReplicas, rescale, TRUE, FALSE, FALSE, in.statusOK, FALSE,
                        Events(<<"FailedRescale">>, <<>>, <<"FailedUpdateReplicas">>), now)
           ELSE Outcome(path, pre,
                        setStatus(setCondition(stReady, "AbleToScale", "True", "SucceededRescale",
                                               desiredReplicas, now),
                                  currentReplicas, desiredReplicas, metricStatuses, rescale, now),
                        original, desiredReplicas, rescale, TRUE, TRUE, FALSE, in.statusOK, TRUE,
                        Events(<<"SuccessfulRescale">>, <<>>, <<>>), now)
  ELSE \* NotScaling: desiredReplicas = currentReplicas
       Outcome(path, pre,
               setStatus(st, currentReplicas, currentReplicas, metricStatuses, rescale, now),
               original, currentReplicas, rescale, FALSE, FALSE, FALSE, in.statusOK, TRUE,
               Events(<<"NotScaling">>, <<>>, <<>>), now)

NoProposal == [proposal |-> 0, metric |-> 0, timestamp |-> 0, fetched |-> FALSE]

\* reconcileWPA.  wpaStatusOriginal is the status of the instance as Reconcile
\* hands it over (DryRun condition already set); in.found tells whether
\* getScaleForResourceMappings returns the scale of the target.
reconcileWPA(wpa, wpaStatusOriginal, currentScale, in, now) ==
  IF ~in.found
  THEN \* no mapping gave the scale: the error is returned before anything is set
       [Outcome("noscale", NoProposal, wpaStatusOriginal, wpaStatusOriginal, Nil, FALSE,
                FALSE, FALSE, FALSE, TRUE, FALSE, Events(<<>>, <<>>, <<>>), now)
          EXCEPT !.err = TRUE]
  ELSE
  LET currentReplicas == currentScale.statusReplicas
      st1 == setCondition(wpaStatusOriginal, "AbleToScale", "True", "SucceededGetScale", 0, now)
      metricStatuses0 == wpaStatusOriginal.CurrentMetrics
      path == reconcilePath(wpa, currentScale)
  IN  CASE path = "disabled" ->
             enact(wpa, path, NoProposal, wpaStatusOriginal,
                   setCondition(st1, "ScalingActive", "False", "ScalingDisabled", 0, now),
                   currentReplicas, 0, metricStatuses0, FALSE, in, now)
        [] path = "max" ->
             enact(wpa, path, NoProposal, wpaStatusOriginal, st1,
                   currentReplicas, wpa.MaxReplicas, metricStatuses0, TRUE, in, now)
        [] path = "min" ->
             enact(wpa, path, NoProposal, wpaStatusOriginal, st1,
                   currentReplicas, wpa.MinReplicas, metricStatuses0, TRUE, in, now)
        [] path = "zero" ->
             enact(wpa, path, NoProposal, wpaStatusOriginal, st1,
                   currentReplicas, 1, metricStatuses0, TRUE, in, now)
        [] OTHER ->
             LET m == computeReplicasForMetrics(wpa, currentScale, in.samples, st1, now)
             IN  IF m.err
                 THEN Outcome(path, [NoProposal EXCEPT !.fetched = TRUE],
                              setCurrentReplicasInStatus(m.st, currentReplicas, now),
                              wpaStatusOriginal, Nil, FALSE, FALSE, FALSE, TRUE, in.statusOK, FALSE,
                              Events(<<m.event>>, <<"FailedComputeMetricsReplicas">>,
                                     <<"FailedUpdateReplicas">>), now)
                 ELSE LET proposedReplicas == m.replicas
                          \* desiredReplicas starts at 0
                          desiredReplicas == IF proposedReplicas > 0 THEN proposedReplicas ELSE 0
                          timestamp == IF proposedReplicas > 0 THEN m.timestamp ELSE now
                          norm == normalizeDesiredReplicas(wpa, m.st, currentReplicas, desiredReplicas, now)
                          gate == shouldScale(wpa, norm[2], currentReplicas, norm[1], timestamp, now)
                      IN  enact(wpa, path,
                                [proposal |-> proposedReplicas, metric |-> m.metric,
                                 timestamp |-> timestamp, fetched |-> TRUE],
                                wpaStatusOriginal, gate[2], currentReplicas, norm[1],
                                m.statuses, gate[1], in, now)

\* ------------------------------------------------------------ the system
VARIABLES
  wpa,        \* Spec of the WatermarkPodAutoscaler (the policy)
  wpaStatus,  \* its persisted Status
  scale,      \* the target's scale subresource: specReplicas, statusReplicas
  clock,      \* wall clock, seconds
  last        \* record of the latest reconciliation and of the scale writes so far

vars == <<wpa, wpaStatus, scale, clock, last>>

\* a metric sample may be as old as MaxStale seconds
MaxStale == 1
\* a behaviour holds at most MaxReconciles reconciliations
MaxReconciles == 2

\* sums of metric values (milli-units) the metric clients return
Usages == {0, 3, 12}

\* watermark pairs (milli-units) of the metric specs
Watermarks == {[low |-> 2, high |-> 4]}

MetricSpecs ==
  {[Type |-> t, LowWatermark |-> w.low, HighWatermark |-> w.high] :
     t \in {"External", "Resource"}, w \in Watermarks}

\* what the calculator's collaborators return for one metric spec at `now`:
\* samples with ready pods; a failed fetch; no ready pod, which fails the
\* external path and on the resource path leaves the metrics of unlisted pods
FetchedSamples(now) ==
  {[ok |-> TRUE, usage |-> u, ready |-> r, ts |-> t, conv |-> MinInt32] :
     u \in Usages, r \in 1..MaxReady, t \in Max2(0, now - MaxStale)..now}

FailedSample(now) == [ok |-> FALSE, usage |-> 0, ready |-> 1, ts |-> now, conv |-> MinInt32]

Samples(metricSpec, now) ==
  FetchedSamples(now) \cup {FailedSample(now)} \cup
  IF metricSpec.Type = "External"
  THEN {[ok |-> TRUE, usage |-> 0, ready |-> 0, ts |-> now, conv |-> MinInt32]}
  ELSE {[ok |-> TRUE, usage |-> u, ready |-> 0, ts |-> now, conv |-> c] :
          u \in {0, 12}, c \in ConvOutcomes}

SampleSeqs(metrics, now) ==
  {samples \in [1..Len(metrics) -> UNION {Samples(metrics[i], now) : i \in 1..Len(metrics)}] :
     \A i \in 1..Len(metrics) : samples[i] \in Samples(metrics[i], now)}

\* CheckWPAValidity, as far as the bounds go: whether the policy is accepted
CheckWPAValidity(policy) ==
  /\ policy.MaxReplicas >= 1
  /\ policy.MinReplicas # Nil => policy.MinReplicas <= policy.MaxReplicas

\* validated policies: MinReplicas <= MaxReplicas, MaxReplicas >= 1
AllPolicies ==
  [MinReplicas : {Nil, 0, 2}, MaxReplicas : {3}, DryRun : BOOLEAN,
   ScaleUpLimitFactor : {50, 100}, ScaleDownLimitFactor : {50, 100},
   UpscaleForbiddenWindowSeconds : {0, 2}, DownscaleForbiddenWindowSeconds : {0, 2},
   Tolerance : {0, 50}, Algorithm : {"average", "absolute"},
   Metrics : {<<ms>> : ms \in MetricSpecs}]

BasePolicy ==
  [MinReplicas |-> 2, MaxReplicas |-> 3, DryRun |-> FALSE,
   ScaleUpLimitFactor |-> 50, ScaleDownLimitFactor |-> 50,
   UpscaleForbiddenWindowSeconds |-> 2, DownscaleForbiddenWindowSeconds |-> 2,
   Tolerance |-> 0, Algorithm |-> "average",
   Metrics |-> <<[Type |-> "External", LowWatermark |-> 2, HighWatermark |-> 4]>>]

\* the policies explored: the base policy, every policy that differs from it
\* in one field, and those that differ in the listed pairs of fields
Differing(p) == {f \in DOMAIN p : p[f] # BasePolicy[f]}

Policies ==
  {p \in AllPolicies :
     \/ Cardinality(Differing(p)) <= 1
     \/ Differing(p) = {"UpscaleForbiddenWindowSeconds", "DownscaleForbiddenWindowSeconds"}
     \/ Differing(p) = {"MinReplicas", "DryRun"}}

\* a policy that CheckWPAValidity rejects: MinReplicas above MaxReplicas
InvalidPolicies == {[BasePolicy EXCEPT !.MinReplicas = BasePolicy.MaxReplicas + 1]}

EmptyStatus ==
  [CurrentReplicas |-> 0, DesiredReplicas |-> 0, CurrentMetrics |-> <<>>,
   LastScaleTime |-> Nil, Conditions |-> <<>>]

NoReconcile ==
  [n |-> 0, time |-> 0, scale |-> [specReplicas |-> 0, statusReplicas |-> 0],
   samples |-> <<>>, before |-> EmptyStatus, out |-> <<>>,
   lastWrite |-> Nil, prevWrite |-> Nil, lastKept |-> Nil, prevKept |-> Nil,
   prev |-> <<>>, kind |-> "none", call |-> <<>>]

Scales == [specReplicas : 0..MaxRep, statusReplicas : 0..MaxRep]

Init ==
  /\ wpa \in Policies \cup InvalidPolicies
  /\ wpaStatus = EmptyStatus
  /\ scale \in Scales
  /\ clock = 0
  /\ last = NoReconcile

\* the sync period of the reconciler, and the delay after which a run that
\* ended with an error of reconcileWPA is retried, in seconds
defaultSyncPeriod == 15
retryDelay == 1

\* the result after an invalid policy, requeued after the sync period
invalidResult_repeat(err) == Result(FALSE, defaultSyncPeriod, err)

\* what Reconcile returns for a policy that fails the validity check: no
\* requeue, and the error of the status update if it failed
invalidResult(err) == Result(FALSE, 0, err)

\* the result that is resRepeat whatever reconcileWPA returned
reconcileResult_always(err) == Result(FALSE, defaultSyncPeriod, FALSE)

\* the result that drops the request when reconcileWPA returned an error
reconcileResult_dropped(err) ==
  IF err THEN Result(FALSE, 0, FALSE) ELSE Result(FALSE, defaultSyncPeriod, FALSE)

\* what Reconcile returns after reconcileWPA: a retry after a second when it
\* returned an error, resRepeat otherwise; never an error
reconcileResult(err) ==
  IF err THEN Result(FALSE, retryDelay, FALSE) ELSE Result(FALSE, defaultSyncPeriod, FALSE)

\* the end of Reconcile on an invalid policy: the error of the status update is
\* returned
rejected(out) == [out EXCEPT !.result = invalidResult(out.err)]

\* the end of Reconcile that does not ask for the repeat after reconcileWPA
\* returned nil
processed_once(out, now) ==
  IF out.err
  THEN [out EXCEPT !.events = Append(@, "FailedProcessWPA"),
                   !.final = setCondition(@, "AbleToScale", "False", "FailedProcessWPA", 0, now),
                   !.result = reconcileResult(TRUE)]
  ELSE [out EXCEPT !.result = Result(FALSE, 0, FALSE)]

\* the end of Reconcile after reconcileWPA: on an error the FailedProcessWPA
\* event and condition, and the result
processed(out, now) ==
  IF out.err
  THEN [out EXCEPT !.events = Append(@, "FailedProcessWPA"),
                   !.final = setCondition(@, "AbleToScale", "False", "FailedProcessWPA", 0, now),
                   !.result = reconcileResult(TRUE)]
  ELSE [out EXCEPT !.result = reconcileResult(FALSE)]

\* Reconcile on a defaulted instance, from the validity check on: what the run
\* leaves behind, with what Reconcile returns.
ReconcileOutcome(policy, status, target, in, now) ==
  IF ~CheckWPAValidity(policy)
  THEN rejected(Outcome("invalid", NoProposal,
                        setCondition(status, "AbleToScale", "False", "FailedSpecCheck", 0, now),
                        status, Nil, FALSE, FALSE, FALSE, FALSE, in.statusOK, TRUE,
                        Events(<<"FailedSpecCheck">>, <<>>, <<"FailedUpdateStatus">>), now))
  ELSE processed(reconcileWPA(policy,
                              setCondition(status, "DryRun",
                                           IF policy.DryRun THEN "True" ELSE "False",
                                           IF policy.DryRun THEN "DryRun mode enabled"
                                           ELSE "DryRun mode disabled",
                                           0, now),
                              target, in, now),
                 now)

\* the outcomes of the scale update and of the status update, where issued
Failures(out) ==
  {f \in [updateOK : BOOLEAN, statusOK : BOOLEAN] :
     /\ (~out.updateCalled => f.updateOK)
     /\ (~out.statusCall => f.statusOK)}

\* the samples the reconciliation reads: none off the metric-driven path
SamplesRead(found, now) ==
  IF CheckWPAValidity(wpa) /\ found /\ reconcilePath(wpa, scale) = "metrics"
  THEN SampleSeqs(wpa.Metrics, now)
  ELSE {<<>>}

\* whether the scale of the target can be read; not asked of an invalid policy
ScaleFound == IF CheckWPAValidity(wpa) THEN BOOLEAN ELSE {TRUE}

\* the effect of a run whose scale update is undone when its status update
\* fails
Ran_rolledback(out, samples) ==
  LET stands == out.updateOK /\ (out.statusCall => out.persisted)
  IN  /\ wpaStatus' = IF out.persisted THEN out.st ELSE wpaStatus
      /\ scale' = IF stands THEN [scale EXCEPT !.specReplicas = out.written] ELSE scale
      /\ last' = [n |-> last.n + 1, time |-> clock, scale |-> scale,
                  samples |-> samples, before |-> wpaStatus, out |-> out,
                  lastWrite |-> IF stands THEN clock ELSE last.lastWrite,
                  prevWrite |-> last.lastWrite,
                  lastKept |-> IF out.updateOK /\ out.persisted THEN clock ELSE last.lastKept,
                  prevKept |-> last.lastKept,
                  prev |-> IF last.kind # "reconcile" THEN <<>>
                           ELSE [time |-> last.time, scale |-> last.scale,
                                 samples |-> last.samples, out |-> last.out],
                  kind |-> "reconcile", call |-> <<>>]
      /\ UNCHANGED <<wpa, clock>>

\* the effect of a run that left `out`: the status update and the scale update
\* that succeeded, and the record of the run
Ran(out, samples) ==
  /\ wpaStatus' = IF out.persisted THEN out.st ELSE wpaStatus
  /\ scale' = IF out.updateOK THEN [scale EXCEPT !.specReplicas = out.written] ELSE scale
  /\ last' = [n |-> last.n + 1, time |-> clock, scale |-> scale,
              samples |-> samples, before |-> wpaStatus, out |-> out,
              lastWrite |-> IF out.updateOK THEN clock ELSE last.lastWrite,
              prevWrite |-> last.lastWrite,
              lastKept |-> IF out.updateOK /\ out.persisted THEN clock ELSE last.lastKept,
              prevKept |-> last.lastKept,
              prev |-> IF last.kind # "reconcile" THEN <<>>
                       ELSE [time |-> last.time, scale |-> last.scale,
                             samples |-> last.samples, out |-> last.out],
              kind |-> "reconcile", call |-> <<>>]
  /\ UNCHANGED <<wpa, clock>>

Reconcile ==
  /\ last.n < MaxReconciles
  /\ \E found \in ScaleFound :
     \E samples \in SamplesRead(found, clock) :
     \E ok \in {ReconcileOutcome(wpa, wpaStatus, scale,
                                 [samples |-> samples, found |-> found,
                                  updateOK |-> TRUE, statusOK |-> TRUE], clock)} :
     \E f \in Failures(ok) :
     \E out \in {IF f.updateOK /\ f.statusOK THEN ok
                 ELSE ReconcileOutcome(wpa, wpaStatus, scale,
                                       [samples |-> samples, found |-> found,
                                        updateOK |-> f.updateOK,
                                        statusOK |-> f.statusOK], clock)} :
       Ran(out, samples)

\* time passes; the clock is read off from the first reconciliation, and the
\* environment is followed only while a reconciliation can still come
Tick ==
  /\ 0 < last.n /\ last.n < MaxReconciles
  /\ clock < MaxTime
  /\ clock' = clock + 1
  /\ UNCHANGED <<wpa, wpaStatus, scale, last>>

\* the target's observed replica count catches up with its spec.replicas
TargetConverges ==
  /\ 0 < last.n /\ last.n < MaxReconciles
  /\ scale.statusReplicas # scale.specReplicas
  /\ scale' = [scale EXCEPT !.statusReplicas = scale.specReplicas]
  /\ UNCHANGED <<wpa, wpaStatus, clock, last>>

\* the target is scaled to zero by its owner, which disables the autoscaling
TargetSuspended ==
  /\ 0 < last.n /\ last.n < MaxReconciles
  /\ scale.specReplicas # 0
  /\ scale' = [scale EXCEPT !.specReplicas = 0]
  /\ UNCHANGED <<wpa, wpaStatus, clock, last>>

Next == Reconcile \/ Tick \/ TargetConverges \/ TargetSuspended

Spec == Init /\ [][Next]_vars

\* ------------------------------------------- after an earlier reconciliation
\* The system as a first reconciliation at time 0 left it, SettledClocks
\* seconds ago: its status persisted, its scale write, if any, done, and the
\* target's observed count either caught up or not.
SettledPolicies ==
  {p \in Policies :
     /\ Differing(p) \subseteq {"UpscaleForbiddenWindowSeconds", "DownscaleForbiddenWindowSeconds"}
     /\ p.UpscaleForbiddenWindowSeconds = p.DownscaleForbiddenWindowSeconds}

SettledClocks == {0, MaxTime}

InitSettled ==
  \E policy \in SettledPolicies, target \in {t \in Scales : t.statusReplicas = t.specReplicas} :
    \E samples \in IF reconcilePath(policy, target) = "metrics"
                   THEN SampleSeqs(policy.Metrics, 0) ELSE {<<>>} :
      \E first \in {ReconcileOutcome(policy, EmptyStatus, target,
                                     [samples |-> samples, found |-> TRUE,
                                      updateOK |-> TRUE, statusOK |-> TRUE], 0)} :
        /\ wpa = policy
        /\ wpaStatus = first.st
        /\ \E written \in {IF first.updateOK THEN first.written ELSE target.specReplicas} :
             scale \in {[specReplicas |-> written, statusReplicas |-> target.statusReplicas],
                        [specReplicas |-> written, statusReplicas |-> written]}
        /\ clock \in SettledClocks
        /\ last = [NoReconcile EXCEPT !.lastWrite = IF first.updateOK THEN 0 ELSE Nil,
                                      !.lastKept = IF first.updateOK THEN 0 ELSE Nil]

SpecSettled == InitSettled /\ [][Next]_vars

\* ---------------------------------------------- the policy's spec edited
\* The settled system, with the policy's spec.DryRun switched by its owner
\* between two reconciliations; Reconcile reads the instance afresh and sets
\* the DryRun condition from the spec it finds.
DryRunSwitched ==
  /\ 0 < last.n /\ last.n < MaxReconciles
  /\ wpa' = [wpa EXCEPT !.DryRun = ~@]
  /\ UNCHANGED <<wpaStatus, scale, clock, last>>

NextDiff == Next \/ DryRunSwitched

SpecDiff == InitSettled /\ [][NextDiff]_vars

\* ------------------------------------------------------------ panics
\* Where a panic may be raised inside reconcileWPA: in the calls that read the
\* scale, in computeReplicasForMetrics, in the scale update, in the status
\* update, each before the call takes effect, and in the event recording and
\* logging that follow the status update after a metric failure.
PanicPoints == {"getScale", "metrics", "scaleUpdate", "statusUpdate", "event"}

\* whether a run that would leave `out` comes by the point
Reaches(out, point) ==
  CASE point = "getScale" -> TRUE
    [] point = "metrics" -> out.path = "metrics"
    [] point = "scaleUpdate" -> out.updateCalled
    [] point = "statusUpdate" -> out.statusCall
    [] point = "event" -> out.metricErr

\* the deferred recover handing the error on to Reconcile
recovered_err(out, original, point) ==
  [out EXCEPT !.panicAt = point, !.err = TRUE,
              !.statusCall = FALSE, !.persisted = FALSE,
              !.events = <<>>, !.final = original, !.mutations = <<>>,
              !.updateCalled = FALSE, !.updateOK = FALSE, !.written = Nil]

\* What the run leaves when a panic is raised at the point: the deferred
\* function of reconcileWPA recovers it and logs, and reconcileWPA returns nil;
\* what was done before the point stays done, the rest is not done.
recovered(out, original, point) ==
  LET cut == [out EXCEPT !.panicAt = point, !.err = FALSE]
      noStatus == [cut EXCEPT !.statusCall = FALSE, !.persisted = FALSE]
      noUpdate == [noStatus EXCEPT !.updateCalled = FALSE, !.updateOK = FALSE,
                                   !.written = Nil]
  IN  CASE point \in {"getScale", "metrics"} ->
             [noUpdate EXCEPT !.events = <<>>, !.final = original, !.mutations = <<>>]
        [] point = "scaleUpdate" ->
             [noUpdate EXCEPT !.events = <<>>, !.final = out.st, !.mutations = <<>>]
        [] point = "statusUpdate" ->
             [noStatus EXCEPT !.final = out.st,
                              !.mutations = SelectSeq(@, LAMBDA w : w # "status")]
        [] point = "event" ->
             [cut EXCEPT !.events = <<out.events[1]>>, !.final = out.st]

\* Reconcile with a panic inside reconcileWPA
ReconcilePanics ==
  /\ last.n < MaxReconciles
  /\ CheckWPAValidity(wpa)
  /\ \E samples \in SamplesRead(TRUE, clock) :
     \E f \in [updateOK : BOOLEAN, statusOK : BOOLEAN] :
     \E ran \in {reconcileWPA(wpa, setCondition(wpaStatus, "DryRun",
                                   IF wpa.DryRun THEN "True" ELSE "False",
                                   IF wpa.DryRun THEN "DryRun mode enabled" ELSE "DryRun mode disabled",
                                   0, clock),
                              scale,
                              [samples |-> samples, found |-> TRUE,
                               updateOK |-> f.updateOK, statusOK |-> f.statusOK], clock)} :
     \E point \in PanicPoints :
       /\ f \in Failures(ran)
       /\ Reaches(ran, point)
       /\ \E out \in {recovered(ran, wpaStatus, point)} :
            Ran([out EXCEPT !.result = reconcileResult(out.err)], samples)

NextPanic == ReconcilePanics \/ Reconcile \/ Tick \/ TargetConverges

\* the base policy after an earlier reconciliation
InitPanic == InitSettled /\ wpa = BasePolicy

SpecPanic == InitPanic /\ [][NextPanic]_vars

\* ------------------------------------------------------------ setCondition calls
\* Calls of setCondition with any type, status and reason on the status of
\* the policy, among its reconciliations; a call counts as a step of the
\* behaviour as a reconciliation does.
ConditionTypes == {"AbleToScale", "ScalingActive", "ScalingLimited", "DryRun"}
ConditionStatuses == {"True", "False", "Unknown"}
CallReasons == {"ReadyForScale", "FailedUpdateScale"}

CondPolicies == {BasePolicy, [BasePolicy EXCEPT !.DryRun = TRUE]}

InitCond ==
  /\ wpa \in CondPolicies
  /\ wpaStatus = EmptyStatus
  /\ scale \in Scales
  /\ clock = 0
  /\ last = NoReconcile

SetCondition ==
  /\ last.n < MaxReconciles
  /\ \E conditionType \in ConditionTypes, status \in ConditionStatuses, reason \in CallReasons :
       /\ wpaStatus' = setCondition(wpaStatus, conditionType, status, reason, 0, clock)
       /\ last' = [last EXCEPT !.n = @ + 1, !.kind = "call",
                                !.call = [type |-> conditionType, status |-> status,
                                          reason |-> reason, time |-> clock,
                                          before |-> wpaStatus.Conditions]]
  /\ UNCHANGED <<wpa, scale, clock>>

NextCond == SetCondition \/ Reconcile \/ Tick \/ TargetConverges

SpecCond == InitCond /\ [][NextCond]_vars

\* ------------------------------------------------------------ the aggregator alone
\* policies with two metric specs, of either kind and either algorithm
AggPolicies ==
  {[BasePolicy EXCEPT !.Metrics = <<a, b>>, !.Algorithm = alg] :
     a \in MetricSpecs, b \in MetricSpecs, alg \in {"average", "absolute"}}

\* computeReplicasForMetrics is reached only on the metric-driven path
InitAgg ==
  /\ wpa \in AggPolicies
  /\ wpaStatus = EmptyStatus
  /\ scale \in {s \in Scales : reconcilePath(wpa, s) = "metrics"}
  /\ clock \in 0..MaxTime
  /\ last = NoReconcile

\* one call of computeReplicasForMetrics; last.out is what it returns
Aggregate ==
  /\ last.n = 0
  /\ \E samples \in SampleSeqs(wpa.Metrics, clock) :
       last' = [NoReconcile EXCEPT !.n = 1, !.time = clock, !.scale = scale,
                                   !.samples = samples,
                                   !.out = computeReplicasForMetrics(wpa, scale, samples,
                                                                     wpaStatus, clock)]
  /\ UNCHANGED <<wpa, wpaStatus, scale, clock>>

NextAgg == Aggregate

SpecAgg == InitAgg /\ [][NextAgg]_vars

\* ------------------------------------------------------------ the aggregator, malformed specs
\* policies with two metric specs of either kind, each with both watermarks
\* or lacking the low or the high one
AbortMetricSpecs ==
  MetricSpecs \cup
  {[ms EXCEPT !.LowWatermark = Nil] : ms \in MetricSpecs} \cup
  {[ms EXCEPT !.HighWatermark = Nil] : ms \in MetricSpecs}

AbortPolicies ==
  {[BasePolicy EXCEPT !.Metrics = <<a, b>>] : a \in AbortMetricSpecs, b \in AbortMetricSpecs}

InitAbort ==
  /\ wpa \in AbortPolicies
  /\ wpaStatus = EmptyStatus
  /\ scale \in {s \in Scales : reconcilePath(wpa, s) = "metrics"}
  /\ clock \in 0..MaxTime
  /\ last = NoReconcile

SpecAbort == InitAbort /\ [][NextAgg]_vars

\* ------------------------------------------------------------ the evaluator alone
\* Calls of getReplicaCount: a base count, an adjusted usage usageNum/usageDen
\* (milli-units), watermarks lowMark <= highMark and a tolerance in percent.
EvalInputs ==
  {in \in [currentReplicas : 1..MaxRep, usageNum : 0..(3 * MaxRep), usageDen : 1..(MaxReady + 1),
            lowMark : 1..MaxRep, highMark : 1..MaxRep, tolerance : {0, 50, 100}] :
     in.lowMark <= in.highMark}

InitEval ==
  /\ wpa = BasePolicy
  /\ wpaStatus = EmptyStatus
  /\ scale = NoReconcile.scale
  /\ clock = 0
  /\ \E in \in EvalInputs : last = [NoReconcile EXCEPT !.call = in]

\* one call of getReplicaCount; last.out is what it returns
Evaluate ==
  /\ last.n = 0
  /\ last' = [last EXCEPT !.n = 1, !.kind = "eval",
                           !.out = getReplicaCount(last.call.currentReplicas, last.call.tolerance,
                                                   last.call.usageNum, last.call.usageDen,
                                                   last.call.lowMark, last.call.highMark,
                                                   MinInt32)]
  /\ UNCHANGED <<wpa, wpaStatus, scale, clock>>

NextEval == Evaluate

SpecEval == InitEval /\ [][NextEval]_vars

\* ------------------------------------------------------------ low usage, repeated
\* Reconciliations that repeat (Reconcile returns the sync-period requeue)
\* with every metric below its adjusted low watermark, once the forbidden
\* windows have elapsed and the target's observed count has followed its
\* spec.replicas; every update succeeds.
ProgressPolicies == {p \in Policies : ~p.DryRun}

\* the longer of the two forbidden windows
LongestWindow(policy) ==
  Max2(policy.UpscaleForbiddenWindowSeconds, policy.DownscaleForbiddenWindowSeconds)

\* samples fetched now, from ready pods no more than the observed count, with
\* an adjusted usage below L*(1-t)
LowSamples(metricSpec, observed, now) ==
  {sample \in FetchedSamples(now) :
     /\ sample.ts = now
     /\ sample.ready <= observed
     /\ sample.usage * 100 <
          (IF wpa.Algorithm = "average" THEN sample.ready ELSE 1)
            * metricSpec.LowWatermark * (100 - wpa.Tolerance)}

InitProgress ==
  /\ wpa \in ProgressPolicies
  /\ wpaStatus = EmptyStatus
  /\ scale \in {t \in Scales : t.statusReplicas = t.specReplicas
                                /\ t.statusReplicas >= (IF wpa.MinReplicas \in {Nil, 0} THEN 1
                                                        ELSE wpa.MinReplicas)}
  /\ clock = 0
  /\ last = NoReconcile

WindowsElapsed ==
  wpaStatus.LastScaleTime = Nil \/ clock >= wpaStatus.LastScaleTime + LongestWindow(wpa)

ReconcileLow ==
  /\ WindowsElapsed
  /\ scale.statusReplicas = scale.specReplicas
  /\ \E samples \in IF reconcilePath(wpa, scale) = "metrics"
                     THEN {<<sample>> : sample \in LowSamples(wpa.Metrics[1], scale.statusReplicas, clock)}
                     ELSE {<<>>} :
     \E out \in {ReconcileOutcome(wpa, wpaStatus, scale,
                                  [samples |-> samples, found |-> TRUE,
                                   updateOK |-> TRUE, statusOK |-> TRUE], clock)} :
       /\ wpaStatus' = IF out.persisted THEN out.st ELSE wpaStatus
       /\ scale' = IF out.updateOK THEN [scale EXCEPT !.specReplicas = out.written] ELSE scale
       /\ last' = [NoReconcile EXCEPT !.n = 1, !.time = clock, !.scale = scale,
                                      !.samples = samples, !.before = wpaStatus, !.out = out,
                                      !.kind = "reconcile"]
  /\ UNCHANGED <<wpa, clock>>

\* the forbidden windows elapse
Elapse ==
  /\ ~WindowsElapsed
  /\ clock' = wpaStatus.LastScaleTime + LongestWindow(wpa)
  /\ UNCHANGED <<wpa, wpaStatus, scale, last>>

\* the target's observed replica count follows its spec.replicas
TargetFollows ==
  /\ scale.statusReplicas # scale.specReplicas
  /\ scale' = [scale EXCEPT !.statusReplicas = scale.specReplicas]
  /\ UNCHANGED <<wpa, wpaStatus, clock, last>>

NextProgress == ReconcileLow \/ Elapse \/ TargetFollows

SpecProgress ==
  /\ InitProgress /\ [][NextProgress]_vars
  /\ WF_vars(ReconcileLow) /\ WF_vars(Elapse) /\ WF_vars(TargetFollows)

\* ------------------------------------------------------------ the normalizer alone
\* Calls of normalizeDesiredReplicas: a policy with its bounds and limit
\* factors, a current count, a proposal, and a status that may already hold a
\* ScalingLimited condition.
NormPolicies ==
  {[BasePolicy EXCEPT !.MinReplicas = m, !.MaxReplicas = M,
                      !.ScaleUpLimitFactor = fUp, !.ScaleDownLimitFactor = fDown] :
     m \in {Nil} \cup (0..MaxRep), M \in 1..MaxRep, fUp \in {10, 50, 100}, fDown \in {10, 50, 100}}

NormInputs == [currentReplicas : 0..MaxRep, desiredReplicas : 0..(2 * MaxRep + 1)]

InitNorm ==
  /\ wpa \in {p \in NormPolicies : CheckWPAValidity(p)}
  /\ wpaStatus \in {EmptyStatus} \cup
       {setCondition(EmptyStatus, "ScalingLimited", s, "DesiredWithinRange", 0, 0) :
          s \in {"True", "False"}}
  /\ scale = NoReconcile.scale
  /\ clock = 1
  /\ \E in \in NormInputs : last = [NoReconcile EXCEPT !.call = in, !.before = wpaStatus]

\* one call of normalizeDesiredReplicas; last.out holds what it returns and
\* what its call of convertDesiredReplicasWithRules returns
Normalize ==
  /\ last.n = 0
  /\ \E norm \in {normalizeDesiredReplicas(wpa, wpaStatus, last.call.currentReplicas,
                                           last.call.desiredReplicas, clock)} :
       /\ wpaStatus' = norm[2]
       /\ last' = [last EXCEPT
            !.n = 1, !.kind = "normalize",
            !.out = [replicas |-> norm[1],
                     conv |-> convertDesiredReplicasWithRules(
                                wpa, last.call.currentReplicas, last.call.desiredReplicas,
                                IF wpa.MinReplicas # Nil THEN wpa.MinReplicas ELSE 0,
                                wpa.MaxReplicas)]]
  /\ UNCHANGED <<wpa, scale, clock>>

NextNorm == Normalize

SpecNorm == InitNorm /\ [][NextNorm]_vars

\* ------------------------------------------------------------ the gate alone
\* Calls of shouldScale: a policy with its two forbidden windows, a status
\* that holds AbleToScale=True/SucceededGetScale and a LastScaleTime or none,
\* a current count, a normalized desired count and a timestamp.
GatePolicies ==
  {[BasePolicy EXCEPT !.UpscaleForbiddenWindowSeconds = up,
                      !.DownscaleForbiddenWindowSeconds = down] :
     up \in 0..MaxTime, down \in 0..MaxTime}

GateStatuses ==
  {[setCondition(EmptyStatus, "AbleToScale", "True", "SucceededGetScale", 0, 0)
      EXCEPT !.LastScaleTime = T0] : T0 \in {Nil} \cup (0..MaxTime)}

GateInputs ==
  [currentReplicas : 1..MaxRep, desiredReplicas : 1..MaxRep, timestamp : 0..(2 * MaxTime + 1)]

InitGate ==
  /\ wpa \in GatePolicies
  /\ wpaStatus \in GateStatuses
  /\ scale = NoReconcile.scale
  /\ clock = 2 * MaxTime + 1
  /\ \E in \in GateInputs : last = [NoReconcile EXCEPT !.call = in, !.before = wpaStatus]

\* one call of shouldScale; last.out is what it returns
Gate ==
  /\ last.n = 0
  /\ \E gate \in {shouldScale(wpa, wpaStatus, last.call.currentReplicas,
                              last.call.desiredReplicas, last.call.timestamp, clock)} :
       /\ wpaStatus' = gate[2]
       /\ last' = [last EXCEPT !.n = 1, !.kind = "gate", !.out = [rescale |-> gate[1]]]
  /\ UNCHANGED <<wpa, scale, clock>>

NextGate == Gate

SpecGate == InitGate /\ [][NextGate]_vars

\* ------------------------------------------------------------ the calculator alone
\* Calls of GetExternalMetricReplicas and GetResourceReplicas: a policy with
\* one metric spec of either kind, an algorithm and a tolerance, a target with
\* 1..MaxRep observed replicas, and what the pod lister and the metrics client
\* return.
CalcPolicies ==
  {[BasePolicy EXCEPT !.Algorithm = a, !.Tolerance = t, !.Metrics = <<ms>>] :
     a \in {"average", "absolute"}, t \in {0, 50}, ms \in MetricSpecs}

CalcSamples ==
  [ok : BOOLEAN, usage : 0..(3 * MaxRep), ready : 0..(MaxReady + 1), ts : {0},
   conv : ConvOutcomes]

InitCalc ==
  /\ wpa \in CalcPolicies
  /\ wpaStatus = EmptyStatus
  /\ \E n \in 1..MaxRep : scale = [specReplicas |-> n, statusReplicas |-> n]
  /\ clock = 0
  /\ \E sample \in CalcSamples : last = [NoReconcile EXCEPT !.call = sample, !.scale = scale]

\* one call of GetExternalMetricReplicas; last.out is the ReplicaCalculation
ExternalReplicas ==
  /\ last.n = 0
  /\ wpa.Metrics[1].Type = "External"
  /\ last' = [last EXCEPT !.n = 1, !.kind = "calc",
                           !.out = GetExternalMetricReplicas(scale, wpa.Metrics[1], wpa, last.call)]
  /\ UNCHANGED <<wpa, wpaStatus, scale, clock>>

\* one call of GetResourceReplicas
ResourceReplicas ==
  /\ last.n = 0
  /\ wpa.Metrics[1].Type = "Resource"
  /\ last' = [last EXCEPT !.n = 1, !.kind = "calc",
                           !.out = GetResourceReplicas(scale, wpa.Metrics[1], wpa, last.call)]
  /\ UNCHANGED <<wpa, wpaStatus, scale, clock>>

NextCalc == ExternalReplicas \/ ResourceReplicas

SpecCalc == InitCalc /\ [][NextCalc]_vars

\* ------------------------------------------------------------ the pods of the resource path
\* GetResourceReplicas from what the pod lister and the metrics client return:
\* the listed pods by name, each with its phase and the state of its PodReady
\* condition, and the metric values by pod name.  The pods are listed by the
\* target's selector and the metrics fetched by the metric's selector, so the
\* two maps need not have the same names.
PodNames == 1..MaxPods

\* the PodReady condition as groupPods reads it: "none" when the condition or
\* the start time is missing, "True", "FalseNever" when it is False and the
\* pod has never been ready within the readiness delay, "False" otherwise
PodStates == [phase : {"Running", "Pending", "Failed"},
              ready : {"none", "True", "FalseNever", "False"}]

PodLists == UNION {[names -> PodStates] : names \in SUBSET PodNames}
PodMetrics == UNION {[names -> {1, 4}] : names \in SUBSET PodNames}

\* groupPods: the ready, ignored and missing pods
groupPods(podList, metrics, resource) ==
  LET ignored(pod) ==
        \/ podList[pod].phase = "Failed"
        \/ podList[pod].phase = "Pending"
        \/ /\ pod \in DOMAIN metrics
           /\ resource = "cpu"
           /\ podList[pod].ready \in {"none", "FalseNever"}
      missing(pod) ==
        /\ podList[pod].phase \notin {"Failed", "Pending"}
        /\ pod \notin DOMAIN metrics
  IN  [readyPods |-> {pod \in DOMAIN podList : ~ignored(pod) /\ ~missing(pod)},
       ignoredPods |-> {pod \in DOMAIN podList : ignored(pod)},
       missing |-> {pod \in DOMAIN podList : missing(pod)}]

\* removeMetricsForPods
removeMetricsForPods(metrics, pods) ==
  [pod \in DOMAIN metrics \ pods |-> metrics[pod]]

\* the sum of the values of a metrics map
RECURSIVE SumOf(_)
SumOf(metrics) ==
  IF DOMAIN metrics = {} THEN 0
  ELSE LET pod == CHOOSE p \in DOMAIN metrics : TRUE
       IN  metrics[pod] + SumOf([q \in DOMAIN metrics \ {pod} |-> metrics[q]])

\* GetResourceReplicas up to the sum: what is left of the fetch for the rest
\* of the function, as a sample [ok, usage, ready, ts, conv]
ResourceSample(fetched, podList, metrics, resource, conv) ==
  LET groups == groupPods(podList, metrics, resource)
      left == removeMetricsForPods(metrics, groups.ignoredPods)
  IN  [ok |-> fetched /\ DOMAIN podList # {} /\ DOMAIN left # {},
       usage |-> SumOf(left), ready |-> Cardinality(groups.readyPods),
       ts |-> 0, conv |-> conv]

PodPolicies ==
  {[BasePolicy EXCEPT !.Algorithm = a,
                      !.Metrics = <<[Type |-> "Resource", LowWatermark |-> 2, HighWatermark |-> 4]>>] :
     a \in {"average", "absolute"}}

InitPods ==
  /\ wpa \in PodPolicies
  /\ wpaStatus = EmptyStatus
  /\ scale = [specReplicas |-> MaxPods, statusReplicas |-> MaxPods]
  /\ clock = 0
  /\ \E podList \in PodLists, metrics \in PodMetrics, resource \in {"cpu", "memory"},
        fetched \in BOOLEAN, conv \in ConvOutcomes :
       last = [NoReconcile EXCEPT
                 !.scale = scale,
                 !.call = [podList |-> podList, metrics |-> metrics, resource |-> resource,
                           fetched |-> fetched, conv |-> conv]]

\* one call of GetResourceReplicas; last.out holds the groups of groupPods,
\* the metrics left by removeMetricsForPods and the ReplicaCalculation
ResourceReplicasOfPods ==
  /\ last.n = 0
  /\ \E groups \in {groupPods(last.call.podList, last.call.metrics, last.call.resource)} :
       last' = [last EXCEPT
         !.n = 1, !.kind = "pods",
         !.out = [groups |-> groups,
                  left |-> removeMetricsForPods(last.call.metrics, groups.ignoredPods),
                  calc |-> GetResourceReplicas(
                             scale, wpa.Metrics[1], wpa,
                             ResourceSample(last.call.fetched, last.call.podList, last.call.metrics,
                                            last.call.resource, last.call.conv))]]
  /\ UNCHANGED <<wpa, wpaStatus, scale, clock>>

NextPods == ResourceReplicasOfPods

SpecPods == InitPods /\ [][NextPods]_vars

\* ------------------------------------------------------------ update events
\* The watch on the policy object: every update of the object, by its owner or
\* by the controller's own status write, raises an update event that
\* updatePredicate filters before it reaches the reconcile queue.

\* a resource.Quantity as written: the number i * 10^scale
Quantities == {[i |-> 4, scale |-> 0], [i |-> 4000, scale |-> -3], [i |-> 5, scale |-> 0]}

MilliValue(q) == IF q.scale = 0 THEN q.i * 1000 ELSE q.i

\* the specs the owner may write
ObjectSpecs ==
  [DryRun : BOOLEAN, MaxReplicas : {3, MaxRep}, HighWatermark : Quantities]

\* the statuses the controller may compute
EventStatuses ==
  {EmptyStatus, [EmptyStatus EXCEPT !.CurrentReplicas = 2],
   [EmptyStatus EXCEPT !.CurrentReplicas = 2, !.DesiredReplicas = 3]}

\* apiequality.Semantic.DeepEqual on two specs: quantities are compared by
\* value, the other fields as they are
SemanticDeepEqual(a, b) ==
  /\ a.DryRun = b.DryRun
  /\ a.MaxReplicas = b.MaxReplicas
  /\ MilliValue(a.HighWatermark) = MilliValue(b.HighWatermark)

\* the predicate comparing the whole objects
updatePredicate_object(ev) == ev.ObjectNew # ev.ObjectOld

updatePredicate(ev) == ~SemanticDeepEqual(ev.ObjectNew.Spec, ev.ObjectOld.Spec)

UpdateEvent(oldSpec, oldStatus, newSpec, newStatus) ==
  [ObjectOld |-> [Spec |-> oldSpec, Status |-> oldStatus],
   ObjectNew |-> [Spec |-> newSpec, Status |-> newStatus]]

\* the watch handing an update event to the queue: `by` made the update;
\* queue holds what asks for a reconciliation, timer whether a timed
\* re-enqueue is pending, edits whether the owner wrote the spec since the
\* latest reconciliation began
Watch(out, ev, by) ==
  [out EXCEPT !.event = ev, !.by = by, !.enqueued = updatePredicate(ev),
              !.queue = IF updatePredicate(ev) THEN @ \cup {"event"} ELSE @]

InitEvents ==
  /\ wpa \in ObjectSpecs
  /\ wpaStatus = EmptyStatus
  /\ scale = [specReplicas |-> 2, statusReplicas |-> 2]
  /\ clock = 0
  /\ last = [NoReconcile EXCEPT !.kind = "event",
                                !.out = [queue |-> {"create"}, timer |-> FALSE,
                                         event |-> <<>>, by |-> "none",
                                         enqueued |-> FALSE, edits |-> FALSE]]

\* the owner writes another spec
SpecEdited ==
  \E new \in ObjectSpecs \ {wpa} :
    /\ wpa' = new
    /\ last' = [last EXCEPT !.n = 1,
                            !.out = [Watch(@, UpdateEvent(wpa, wpaStatus, new, wpaStatus), "owner")
                                       EXCEPT !.edits = TRUE]]
    /\ UNCHANGED <<wpaStatus, scale, clock>>

\* a reconciliation taken from the queue: it writes the status it computed
\* when that differs, and returns with a timed re-enqueue
Reconciles ==
  /\ last.out.queue # {}
  /\ \E st \in EventStatuses :
     \E taken \in {[last.out EXCEPT !.queue = {}, !.timer = TRUE, !.edits = FALSE]} :
       /\ wpaStatus' = st
       /\ last' = [last EXCEPT !.n = 1,
                               !.out = IF updateStatusIfNeeded(wpaStatus, st)
                                       THEN Watch(taken, UpdateEvent(wpa, wpaStatus, wpa, st),
                                                  "controller")
                                       ELSE taken]
  /\ UNCHANGED <<wpa, scale, clock>>

\* the timed re-enqueue comes due
TimerFires ==
  /\ last.out.timer
  /\ last' = [last EXCEPT !.n = 1,
                          !.out = [@ EXCEPT !.timer = FALSE, !.queue = @ \cup {"timer"}]]
  /\ UNCHANGED <<wpa, wpaStatus, scale, clock>>

NextEvents == SpecEdited \/ Reconciles \/ TimerFires

SpecEvents == InitEvents /\ [][NextEvents]_vars

\* ------------------------------------------------------------ the work queue
\* The reconciler under its work queue: a request for the policy is queued by
\* the events of the watch, by a timed re-enqueue coming due and by a
\* Reconcile that returned an error or Requeue; a worker takes a queued
\* request and calls Reconcile.
LivePolicies == {BasePolicy} \cup InvalidPolicies

\* the queue: whether a request is queued, whether a timed re-enqueue is
\* pending, and whether the policy object exists
WorkQueue(queued, timer, exists) == [queued |-> queued, timer |-> timer, exists |-> exists]

\* Reconcile for a request whose object is not found: no requeue, no error
NotFound == [path |-> "notfound", panicAt |-> "none", err |-> FALSE,
             metricErr |-> FALSE, updateCalled |-> FALSE, updateOK |-> FALSE,
             persisted |-> FALSE, result |-> Result(FALSE, 0, FALSE)]

\* what the queue does with the result of Reconcile: the request is queued
\* again at once on an error or Requeue, and after the delay on RequeueAfter
Scheduled(q, result) ==
  WorkQueue(result.err \/ result.Requeue, q.timer \/ result.RequeueAfter > 0, q.exists)

\* what the record of a run keeps of its outcome
Returned(out) ==
  [path |-> out.path, panicAt |-> out.panicAt, err |-> out.err,
   metricErr |-> out.metricErr, updateCalled |-> out.updateCalled,
   updateOK |-> out.updateOK, result |-> out.result]

\* the samples read: from one ready pod, a fetch that failed or a usage above
\* the high watermark
LiveSamples(found) ==
  {samples \in SamplesRead(found, clock) :
     \A i \in 1..Len(samples) :
       /\ samples[i].ready = 1
       /\ samples[i].ok => samples[i].usage > wpa.Metrics[i].HighWatermark}

\* what a run of Reconcile that left `out` does, and what the queue does
\* with its result; n tells one reconciliation from the next
Returns(out) ==
  /\ wpaStatus' = IF out.persisted THEN out.st ELSE wpaStatus
  /\ scale' = IF out.updateOK THEN [scale EXCEPT !.specReplicas = out.written] ELSE scale
  /\ last' = [NoReconcile EXCEPT !.n = IF last.n = 1 THEN 2 ELSE 1,
                                 !.kind = "reconcile", !.out = Returned(out),
                                 !.call = Scheduled(WorkQueue(FALSE, last.call.timer,
                                                              last.call.exists),
                                                    out.result)]

InitLive ==
  /\ wpa \in LivePolicies
  /\ wpaStatus = EmptyStatus
  /\ scale = [specReplicas |-> BasePolicy.MinReplicas, statusReplicas |-> BasePolicy.MinReplicas]
  /\ clock = 0
  /\ last = [NoReconcile EXCEPT !.call = WorkQueue(TRUE, FALSE, TRUE)]

\* a worker takes the queued request and calls Reconcile: on a policy not
\* found, on the policy found with every outcome of its updates, and with a
\* panic inside reconcileWPA recovered
ReconcileQueued ==
  /\ last.call.queued
  /\ \/ ~last.call.exists /\ Returns(NotFound)
     \/ /\ last.call.exists
        /\ \E found \in ScaleFound :
           \E samples \in LiveSamples(found) :
           \E ok \in {ReconcileOutcome(wpa, wpaStatus, scale,
                                       [samples |-> samples, found |-> found,
                                        updateOK |-> TRUE, statusOK |-> TRUE], clock)} :
             \/ \E f \in Failures(ok) :
                \E out \in {IF f.updateOK /\ f.statusOK THEN ok
                            ELSE ReconcileOutcome(wpa, wpaStatus, scale,
                                                  [samples |-> samples, found |-> found,
                                                   updateOK |-> f.updateOK,
                                                   statusOK |-> f.statusOK], clock)} :
                  Returns(out)
             \/ \E point \in PanicPoints :
                  /\ CheckWPAValidity(wpa) /\ found /\ Reaches(ok, point)
                  /\ Returns(processed(recovered(ok, wpaStatus, point), clock))
  /\ UNCHANGED <<wpa, clock>>

\* a timed re-enqueue comes due
RequeueDue ==
  /\ last.call.timer
  /\ last' = [last EXCEPT !.call = WorkQueue(TRUE, FALSE, last.call.exists)]
  /\ UNCHANGED <<wpa, wpaStatus, scale, clock>>

\* the owner rewrites the spec, valid or not; the update event queues a request
SpecRewritten ==
  /\ last.call.exists
  /\ \E new \in LivePolicies \ {wpa} :
       /\ wpa' = new
       /\ last' = [last EXCEPT !.call = WorkQueue(TRUE, last.call.timer, TRUE)]
  /\ UNCHANGED <<wpaStatus, scale, clock>>

\* the owner deletes the policy; the delete event queues a request
PolicyDeleted ==
  /\ last.call.exists
  /\ last' = [last EXCEPT !.call = WorkQueue(TRUE, last.call.timer, FALSE)]
  /\ UNCHANGED <<wpa, wpaStatus, scale, clock>>

\* the target's observed replica count follows its spec.replicas
TargetCatchesUp ==
  /\ scale.statusReplicas # scale.specReplicas
  /\ scale' = [scale EXCEPT !.statusReplicas = scale.specReplicas]
  /\ UNCHANGED <<wpa, wpaStatus, clock, last>>

NextLive == ReconcileQueued \/ RequeueDue \/ SpecRewritten \/ PolicyDeleted \/ TargetCatchesUp

\* the workers take what is queued and the timers of the queue come due
SpecLive ==
  /\ InitLive /\ [][NextLive]_vars
  /\ WF_vars(ReconcileQueued) /\ WF_vars(RequeueDue)

\* ------------------------------------------------------------ properties
\* the latest reconciliation, its observed replica count and what it wrote
Reconciled == last.n > 0 /\ last.kind # "call"
ObservedReplicas == last.scale.statusReplicas
IssuedWrite == Reconciled /\ last.out.updateCalled
MetricDriven == Reconciled /\ last.out.path = "metrics"
\* the latest reconciliation had a policy that passed the validity check and
\* read the scale of its target
ReadScale == Reconciled /\ last.out.path \notin {"invalid", "noscale"}

\* MinReplicas, taken as 1 when it is unset or zero
LowerBound(policy) ==
  IF policy.MinReplicas = Nil \/ policy.MinReplicas = 0 THEN 1 ELSE policy.MinReplicas

\* the rate caps of one step from n replicas
ScaleUpCap(policy, n) == n + Max2(1, (policy.ScaleUpLimitFactor * n) \div 100)
ScaleDownCap(policy, n) == n - Max2(1, (policy.ScaleDownLimitFactor * n) \div 100)

\* C1 - Bounds: whenever a reconciliation issues a scale write, on the
\* metric-driven path or on the max, min or zero override path, the value it
\* writes lies between MinReplicas (1 when unset or zero) and MaxReplicas.
C1_Bounds ==
  IssuedWrite =>
    /\ LowerBound(wpa) <= last.out.written
    /\ last.out.written <= wpa.MaxReplicas

\* a metric-driven reconciliation wrote a value the normalizer had to clamp
C1_Witness ==
  /\ IssuedWrite /\ MetricDriven
  /\ last.out.proposal > wpa.MaxReplicas
  /\ last.out.written = wpa.MaxReplicas

\* C2 (as claimed) - Rate-limit respect on every path and for every policy:
\* each written value lies within the two rate caps around the observed count.
C2_RateLimitEveryPath ==
  IssuedWrite =>
    /\ ScaleDownCap(wpa, ObservedReplicas) <= last.out.written
    /\ last.out.written <= ScaleUpCap(wpa, ObservedReplicas)

\* C2 (amended) - a write of the metric-driven path never exceeds the scale-up
\* cap, and it is not below the scale-down cap when MinReplicas is set and
\* non-zero.
C2_RateLimitMetricPath ==
  (IssuedWrite /\ MetricDriven) =>
    /\ last.out.written <= ScaleUpCap(wpa, ObservedReplicas)
    /\ (wpa.MinReplicas # Nil /\ wpa.MinReplicas # 0
          => ScaleDownCap(wpa, ObservedReplicas) <= last.out.written)

\* a metric-driven write that the scale-up cap, not MaxReplicas, held back
C2_Witness ==
  /\ IssuedWrite /\ MetricDriven
  /\ last.out.proposal > ScaleUpCap(wpa, ObservedReplicas)
  /\ last.out.written = ScaleUpCap(wpa, ObservedReplicas)
  /\ last.out.written < wpa.MaxReplicas

\* the latest reconciliation wrote the target's scale
Wrote == Reconciled /\ last.out.updateOK

\* the write w made at time `now` keeps clear of the forbidden windows that a
\* write at time T opened
ClearOfWindows(T, now, w) ==
  /\ (w > ObservedReplicas => now >= T + wpa.UpscaleForbiddenWindowSeconds)
  /\ (w < ObservedReplicas => now >= T + wpa.DownscaleForbiddenWindowSeconds)
  /\ now - T >= Min2(wpa.UpscaleForbiddenWindowSeconds, wpa.DownscaleForbiddenWindowSeconds)

\* C3 (as claimed) - Cooldown: after a successful scale write at time T no
\* later reconciliation writes above its observed count before T+Wup nor below
\* it before T+Wdown, so two successful writes are at least min(Wup, Wdown)
\* apart.
C3_CooldownEveryWrite ==
  (Wrote /\ last.prevWrite # Nil) =>
    ClearOfWindows(last.prevWrite, last.time, last.out.written)

\* C3 (amended) - Cooldown of the metric-driven path: after a successful scale
\* write at time T whose status update was persisted, no metric-driven
\* reconciliation issues a write above its observed count before T+Wup nor
\* below it before T+Wdown, and none issues a write before T+min(Wup, Wdown).
C3_CooldownMetricPath ==
  (IssuedWrite /\ MetricDriven /\ last.prevKept # Nil) =>
    ClearOfWindows(last.prevKept, last.time, last.out.written)

\* a metric-driven reconciliation changes the count again once a positive
\* window after a persisted write is over
C3_Witness ==
  /\ Wrote /\ MetricDriven /\ last.prevKept # Nil
  /\ last.out.written < ObservedReplicas
  /\ wpa.DownscaleForbiddenWindowSeconds > 0
  /\ last.time >= last.prevKept + wpa.DownscaleForbiddenWindowSeconds

\* every sample of the latest reconciliation was fetched, has ready pods and
\* an adjusted usage u with L*(1-t) <= u <= H*(1+t)
InDeadBand ==
  /\ MetricDriven
  /\ \A i \in 1..Len(wpa.Metrics) :
       LET sample == last.samples[i]
           averaged == IF wpa.Algorithm = "average" THEN sample.ready ELSE 1
       IN  /\ sample.ok /\ sample.ready >= 1
           /\ sample.usage * 100 >= averaged * wpa.Metrics[i].LowWatermark * (100 - wpa.Tolerance)
           /\ sample.usage * 100 <= averaged * wpa.Metrics[i].HighWatermark * (100 + wpa.Tolerance)

\* C4 - Dead band: when the status replicas are within the policy bounds and
\* non-zero and every metric's adjusted usage lies within the tolerance band
\* of its watermarks, no scale write is issued and the resulting status has
\* DesiredReplicas = CurrentReplicas, for both metric kinds, whatever the
\* ready-pod count and whether or not LastScaleTime is set.
C4_DeadBand ==
  InDeadBand =>
    /\ ~last.out.updateCalled
    /\ last.out.st.DesiredReplicas = last.out.st.CurrentReplicas

\* C5 (as claimed) - LastScaleTime changes only in a reconciliation that
\* successfully wrote the target's scale.
C5_OnlyOnScaleWrite ==
  Reconciled =>
    (wpaStatus.LastScaleTime # last.before.LastScaleTime => last.out.updateOK)

\* C5 (amended) - LastScaleTime changes, in the status the reconciliation
\* computes and in the persisted one, only in a reconciliation that decided to
\* enact and either wrote the target's scale successfully or runs in dry-run.
C5_OnlyOnEnactment ==
  Reconciled =>
    /\ (wpaStatus.LastScaleTime # last.before.LastScaleTime
          => last.out.rescale /\ (last.out.updateOK \/ wpa.DryRun))
    /\ (last.out.st.LastScaleTime # last.before.LastScaleTime
          => last.out.rescale /\ (last.out.updateOK \/ wpa.DryRun))

\* a live reconciliation moved a LastScaleTime that was already set
C5_Witness ==
  /\ Wrote /\ ~wpa.DryRun
  /\ last.before.LastScaleTime # Nil
  /\ wpaStatus.LastScaleTime > last.before.LastScaleTime

\* the latest reconciliation run again in the other mode: the same policy but
\* for the DryRun flag, the same scale, samples, prior status and instant,
\* with the scale update and the status update succeeding
Twin ==
  ReconcileOutcome([wpa EXCEPT !.DryRun = ~wpa.DryRun], last.before, last.scale,
                   [samples |-> last.samples, found |-> last.out.path # "noscale",
                    updateOK |-> TRUE, statusOK |-> TRUE],
                   last.time)

\* C6 - Dry-run purity: with DryRun=true no reconciliation path calls the
\* scale update, and the status of the reconciliation carries the decision:
\* DesiredReplicas is the count a live reconciliation would have written.
C6_DryRunPurity ==
  (Reconciled /\ wpa.DryRun) =>
    /\ ~last.out.updateCalled
    /\ last.out.written = Nil
    /\ (Twin.updateCalled => last.out.st.DesiredReplicas = Twin.written)

\* a dry-run reconciliation of the metric-driven path decided a change
C6_Witness ==
  /\ MetricDriven /\ wpa.DryRun
  /\ last.out.rescale
  /\ last.out.st.DesiredReplicas # ObservedReplicas

\* the conditions of a status but for the DryRun condition
OtherConditions(st) == SelectSeq(st.Conditions, LAMBDA c : c.type # "DryRun")

\* the status fields that are not conditions
Fields(st) ==
  <<st.CurrentReplicas, st.DesiredReplicas, st.CurrentMetrics, st.LastScaleTime>>

\* the latest reconciliation was a dry run, or a live one whose scale update,
\* if issued, succeeded
Comparable == Reconciled /\ (last.out.updateCalled => last.out.updateOK)

\* the status of the dry run and of the live run of the same inputs, `twin`
\* being the outcome of the other mode
DryStatus(twin) == IF wpa.DryRun THEN last.out.st ELSE twin.st
LiveStatus(twin) == IF wpa.DryRun THEN twin.st ELSE last.out.st

\* C7 (as claimed) - Dry-run equivalence: for identical inputs a dry-run
\* reconciliation and a live one whose scale write succeeds produce identical
\* status fields and identical conditions (the DryRun condition apart).
C7_DryRunEquivalence ==
  Comparable =>
    \A twin \in {Twin} :
      /\ Fields(DryStatus(twin)) = Fields(LiveStatus(twin))
      /\ OtherConditions(DryStatus(twin)) = OtherConditions(LiveStatus(twin))

\* two condition lists equal but for the reason and message of AbleToScale
\* when the reconciliation enacts
EqualButReason(dryConditions, liveConditions, enacted) ==
  /\ Len(dryConditions) = Len(liveConditions)
  /\ \A i \in 1..Len(dryConditions) :
       LET dry == dryConditions[i]
           live == liveConditions[i]
       IN  IF dry.type = "AbleToScale" /\ enacted
           THEN /\ live.type = "AbleToScale"
                /\ dry.status = live.status /\ dry.ltt = live.ltt
                /\ dry.reason = "ReadyForScale" /\ live.reason = "SucceededRescale"
           ELSE dry = live

\* C7 (amended) - the two modes decide alike and produce identical status
\* fields and identical conditions but for the DryRun condition and for the
\* reason and message of AbleToScale when they enact: ReadyForScale in the dry
\* run, SucceededRescale in the live run, with the same status value and
\* transition time.
C7_DryRunEquivalenceButReason ==
  Comparable =>
    \A twin \in {Twin} :
      /\ twin.rescale = last.out.rescale
      /\ Fields(DryStatus(twin)) = Fields(LiveStatus(twin))
      /\ EqualButReason(OtherConditions(DryStatus(twin)), OtherConditions(LiveStatus(twin)),
                        last.out.rescale)

\* a dry-run reconciliation of the metric-driven path that enacts
C7_Witness ==
  /\ Comparable /\ MetricDriven /\ wpa.DryRun
  /\ last.out.rescale
  /\ last.before.LastScaleTime # Nil

\* the replica calculation of metric spec i in the aggregator call recorded
Calculation(i) == replicaCalc(last.scale, wpa.Metrics[i], wpa, last.samples[i])

\* the aggregator was called and every metric spec evaluated successfully
AllEvaluated == last.n = 1 /\ ~last.out.err

\* spec i attains the maximum of the proposals, and no earlier spec does
FirstMaximum(i) ==
  /\ \A j \in 1..Len(wpa.Metrics) :
       Calculation(j).replicaCount <= Calculation(i).replicaCount
  /\ \A j \in 1..(i - 1) :
       Calculation(j).replicaCount < Calculation(i).replicaCount

\* C8 - Max-over-metrics: when all the metric specs of a policy evaluate
\* successfully, the aggregator returns the maximum of the per-spec proposals
\* with the metric name and the timestamp of the first spec, in declared
\* order, that attains it.
C8_MaxOverMetrics ==
  AllEvaluated =>
    \A i \in 1..Len(wpa.Metrics) :
      FirstMaximum(i) =>
        /\ last.out.replicas = Calculation(i).replicaCount
        /\ last.out.metric = i
        /\ last.out.timestamp = last.samples[i].ts

\* two specs propose the same count from samples of different times
C8_Witness ==
  /\ AllEvaluated
  /\ Calculation(1).replicaCount = Calculation(2).replicaCount
  /\ last.samples[1].ts # last.samples[2].ts
  /\ last.out.metric = 1

\* the condition of a type in a status
ConditionOf(st, conditionType) ==
  st.Conditions[CHOOSE i \in 1..Len(st.Conditions) : st.Conditions[i].type = conditionType]

\* the latest reconciliation followed another one and read the same inputs:
\* the same target scale, read by both, and the same metric samples with
\* their timestamps
Unchanged ==
  /\ last.n = 2
  /\ last.out.path # "noscale" /\ last.prev.out.path # "noscale"
  /\ last.scale = last.prev.scale
  /\ last.samples = last.prev.samples

\* every scale update and status update the reconciliation issued succeeded
Smooth(out) ==
  /\ (out.updateCalled => out.updateOK)
  /\ (out.statusCall => out.persisted)

\* C9 (as claimed) - Idempotence: reconciling twice in succession with
\* unchanged inputs (and no update failing) leaves the same status after the
\* second reconciliation as after the first, and at most one scale write in
\* total.
C9_Idempotence ==
  (Unchanged /\ Smooth(last.prev.out) /\ Smooth(last.out)) =>
    /\ wpaStatus = last.before
    /\ ~(last.prev.out.updateOK /\ last.out.updateOK)

\* the first of the two reconciliations neither enacted nor was held back by
\* a forbidden window, and its status update did not fail
QuietFirst ==
  /\ ~last.prev.out.rescale
  /\ ConditionOf(last.prev.out.st, "AbleToScale").status = "True"
  /\ (last.prev.out.statusCall => last.prev.out.persisted)

\* C9 (amended) - reconciling twice in succession with unchanged inputs, the
\* first reconciliation neither enacting nor being held back by a forbidden
\* window and its status update not failing, leaves after the second the
\* status the first left, the second computing that very status, and neither
\* reconciliation issues a scale write.
C9_IdempotenceWhenQuiet ==
  (Unchanged /\ QuietFirst) =>
    /\ wpaStatus = last.before
    /\ last.out.st = last.before
    /\ ~last.prev.out.updateCalled
    /\ ~last.out.updateCalled

\* two metric-driven reconciliations, a while apart, that find the usage
\* inside the band and the count unchanged
C9_Witness ==
  /\ Unchanged /\ QuietFirst /\ MetricDriven
  /\ ~last.out.metricErr
  /\ last.out.proposal = ObservedReplicas
  /\ last.time > last.prev.time

\* DesiredReplicas of a status lies within the policy bounds
DesiredWithinBounds(st) ==
  /\ LowerBound(wpa) <= st.DesiredReplicas
  /\ st.DesiredReplicas <= wpa.MaxReplicas

\* C10 (as claimed) - Status bound invariant: every reconciliation that
\* completes successfully (no metric error, no update failing), the
\* scaling-disabled, cooldown-blocked and no-change outcomes included, leaves
\* a status with MinReplicas (1 when zero or unset) <= DesiredReplicas <=
\* MaxReplicas.
C10_StatusBounds ==
  (ReadScale /\ ~last.out.metricErr /\ Smooth(last.out)) =>
    DesiredWithinBounds(last.out.st)

\* C10 (amended) - every reconciliation of a target whose spec.replicas is
\* not 0 that meets no metric error and no failed scale update computes a
\* status with DesiredReplicas within the policy bounds, and so is the
\* persisted status unless the status update fails.
C10_StatusBoundsWhenEnabled ==
  (ReadScale /\ last.out.path # "disabled" /\ ~last.out.metricErr
     /\ (last.out.updateCalled => last.out.updateOK)) =>
    /\ DesiredWithinBounds(last.out.st)
    /\ ((last.out.statusCall => last.out.persisted) => DesiredWithinBounds(wpaStatus))

\* a metric-driven reconciliation held back by a forbidden window
C10_Witness ==
  /\ MetricDriven /\ ~last.out.metricErr
  /\ ~last.out.rescale
  /\ last.out.proposal # ObservedReplicas
  /\ ConditionOf(last.out.st, "AbleToScale").status = "False"
  /\ last.out.st.DesiredReplicas = ObservedReplicas

\* whether a list of conditions holds each type once at most
UniqueTypes(list) ==
  \A i, j \in 1..Len(list) : list[i].type = list[j].type => i = j

\* whether a list of conditions holds one of the type
Holds(list, conditionType) ==
  \E i \in 1..Len(list) : list[i].type = conditionType

\* the latest step was a call of setCondition
Called == last.kind = "call"

\* C11 - Condition uniqueness: from a status with no condition, whatever
\* calls of setCondition and reconciliations follow, the condition list of the
\* status holds at most one condition per type, the one a reconciliation
\* computes included; a call for a type the list lacks adds exactly one
\* entry after the entries it had, and a call for a type it holds adds none.
C11_ConditionUniqueness ==
  /\ UniqueTypes(wpaStatus.Conditions)
  /\ Reconciled => /\ UniqueTypes(last.out.st.Conditions)
                   /\ UniqueTypes(last.out.final.Conditions)
  /\ Called =>
       LET before == last.call.before
           after == wpaStatus.Conditions
       IN  IF Holds(before, last.call.type)
           THEN Len(after) = Len(before)
           ELSE /\ Len(after) = Len(before) + 1
                /\ after[Len(after)].type = last.call.type
                /\ \A i \in 1..Len(before) : after[i] = before[i]

\* after a reconciliation, a call for the one type the reconciliation left
\* out, which takes the last place of the list
C11_Witness ==
  /\ Called
  /\ Len(last.call.before) = 3
  /\ ~Holds(last.call.before, last.call.type)
  /\ Len(wpaStatus.Conditions) = 4

\* C12 - a call of setCondition moves the lastTransitionTime of the
\* condition it sets only when it changes its status value or creates it:
\* the same status set again, with whatever reason, keeps the time, and the
\* conditions of the other types are left as they were.
C12_TransitionTime ==
  Called =>
    LET before == last.call.before
        after == wpaStatus.Conditions
    IN  /\ \A i \in 1..Len(before) :
             IF before[i].type = last.call.type
             THEN /\ after[i].ltt # before[i].ltt => before[i].status # last.call.status
                  /\ before[i].status = last.call.status => after[i].ltt = before[i].ltt
             ELSE after[i] = before[i]
        /\ ~Holds(before, last.call.type) => after[Len(after)].ltt = last.call.time

\* a condition set again, later, with the status it had and another reason
C12_Witness ==
  /\ Called
  /\ \E i \in 1..Len(last.call.before) :
       /\ last.call.before[i].type = last.call.type
       /\ last.call.before[i].status = last.call.status
       /\ last.call.before[i].reason # last.call.reason
       /\ last.call.before[i].ltt < last.call.time
       /\ wpaStatus.Conditions[i].ltt = last.call.before[i].ltt
       /\ wpaStatus.Conditions[i].reason = last.call.reason

\* the reason of the failure of the first metric spec whose sample fails
FailedSpecReason ==
  LET i == CHOOSE k \in 1..Len(wpa.Metrics) :
             /\ replicaCalc(last.scale, wpa.Metrics[k], wpa, last.samples[k]).err
             /\ \A j \in 1..(k - 1) :
                  ~replicaCalc(last.scale, wpa.Metrics[j], wpa, last.samples[j]).err
  IN  FailedGetReason(wpa.Metrics[i])

\* the status update of the latest reconciliation, if issued, succeeded
StatusKept == last.out.statusCall => last.out.persisted

\* C13 - Metric fetch failure: a reconciliation in which the fetch of a
\* metric spec fails issues no scale update; the status it computes keeps
\* LastScaleTime, DesiredReplicas and CurrentMetrics as they were, takes the
\* observed count as CurrentReplicas and has ScalingActive False with reason
\* FailedGetExternalMetric or FailedGetResourceMetric after the kind of the
\* spec; that status is handed to the status update whenever it differs from
\* the one read, and is the persisted status once the update succeeds.
C13_MetricFailure ==
  (Reconciled /\ last.out.metricErr) =>
    /\ ~last.out.updateCalled /\ ~last.out.updateOK
    /\ last.out.st.LastScaleTime = last.before.LastScaleTime
    /\ last.out.st.DesiredReplicas = last.before.DesiredReplicas
    /\ last.out.st.CurrentMetrics = last.before.CurrentMetrics
    /\ last.out.st.CurrentReplicas = ObservedReplicas
    /\ ConditionOf(last.out.st, "ScalingActive").status = "False"
    /\ ConditionOf(last.out.st, "ScalingActive").reason = FailedSpecReason
    /\ StatusKept => wpaStatus = last.out.st

\* a fetch failing after a reconciliation that scaled the target: the
\* status kept has a scale time, metric statuses and a desired count that is
\* not the count observed now
C13_Witness ==
  /\ Reconciled /\ last.out.metricErr /\ last.out.persisted
  /\ last.before.LastScaleTime # Nil
  /\ last.before.CurrentMetrics # <<>>
  /\ last.before.DesiredReplicas # ObservedReplicas
  /\ last.before.CurrentReplicas # ObservedReplicas
  /\ wpaStatus.DesiredReplicas = last.before.DesiredReplicas
  /\ wpaStatus.CurrentReplicas = ObservedReplicas

\* the latest reconciliation met a fault the claim counts as transient: a
\* metric fetch failure, a scale that could not be read, a failed scale update
TransientFault ==
  \/ last.out.metricErr
  \/ last.out.path = "noscale"
  \/ (last.out.updateCalled /\ ~last.out.updateOK)

\* the policy of the latest reconciliation passed the validity check
Accepted == Reconciled /\ last.out.path # "invalid"

Rejected == Reconciled /\ last.out.path = "invalid"

Missing == Reconciled /\ last.out.path = "noscale"

\* C16 (as claimed) - Missing target: the reconciliation issues no scale
\* update and asks for no requeue, immediate or delayed.
C16_MissingTarget ==
  Missing =>
    /\ ~last.out.updateCalled /\ ~last.out.updateOK
    /\ last.out.result = Result(FALSE, 0, FALSE)

\* C16 (amended) - the reconciliation issues no scale update and no status
\* update, records a FailedProcessWPA event and asks for a requeue after one
\* second, with no immediate requeue and no error.
C16_MissingTargetRetried ==
  Missing =>
    /\ ~last.out.updateCalled /\ ~last.out.updateOK
    /\ ~last.out.statusCall /\ wpaStatus = last.before
    /\ last.out.events = <<"FailedProcessWPA">>
    /\ last.out.result = Result(FALSE, retryDelay, FALSE)

\* the scale is missing at a reconciliation that follows one that scaled
C16_Witness ==
  /\ Missing /\ last.n = 2
  /\ last.prev.out.updateOK /\ last.prev.out.persisted
  /\ wpaStatus = last.prev.out.st
  /\ last.out.result.RequeueAfter = retryDelay

\* a panic ended the inner pipeline of the latest reconciliation
Panicked == Reconciled /\ last.out.panicAt # "none"

\* C17 (as claimed) - Panic containment: a panic raised at any point of
\* reconcileWPA is recovered there and does not reach the caller, and the
\* reconciliation ends with the persisted status it began with.
C17_PanicContained ==
  Panicked =>
    /\ ~last.out.err /\ ~last.out.result.err
    /\ wpaStatus = last.before

\* C17 (amended) - a panic raised at any point of reconcileWPA is recovered
\* there: reconcileWPA returns no error and Reconcile returns resRepeat; the
\* persisted status is the one the reconciliation began with when the panic
\* comes before the status update has taken effect, and the one that update
\* persisted when it comes after it, in the event recording that follows the
\* status update of a metric failure.
C17_PanicContainedBeforeCommit ==
  Panicked =>
    /\ ~last.out.err
    /\ last.out.result = Result(FALSE, defaultSyncPeriod, FALSE)
    /\ last.out.panicAt # "event" => wpaStatus = last.before
    /\ last.out.panicAt = "event" =>
         wpaStatus = IF last.out.persisted THEN last.out.st ELSE last.before

\* a panic in the status update that follows a successful scale update of a
\* status that held a scale time
C17_Witness ==
  /\ Panicked /\ last.out.panicAt = "statusUpdate"
  /\ last.out.updateOK
  /\ last.before.LastScaleTime # Nil
  /\ last.out.st # last.before
  /\ wpaStatus = last.before

\* whether a status holds a condition with the reason
HasReason(st, reason) ==
  \E i \in 1..Len(st.Conditions) : st.Conditions[i].reason = reason

\* whether the latest reconciliation recorded an event with the reason
Emitted(reason) ==
  \E i \in 1..Len(last.out.events) : last.out.events[i] = reason

\* the reason that goes with the kind of the metric spec whose fetch failed
FetchFailureReason ==
  LET i == CHOOSE k \in 1..Len(wpa.Metrics) :
             /\ replicaCalc(last.scale, wpa.Metrics[k], wpa, last.samples[k]).err
             /\ \A j \in 1..(k - 1) :
                  ~replicaCalc(last.scale, wpa.Metrics[j], wpa, last.samples[j]).err
  IN  IF wpa.Metrics[i].Type = "External"
      THEN "FailedGetExternalMetric" ELSE "FailedGetResourceMetric"

\* the scale update of the latest reconciliation failed
UpdateFailed == Reconciled /\ last.out.updateCalled /\ ~last.out.updateOK

\* the status update that follows a metric failure or a failed scale update
\* failed in the latest reconciliation
ReplicasUpdateFailed ==
  /\ Reconciled /\ (last.out.metricErr \/ UpdateFailed)
  /\ ~StatusKept

\* the failure reasons that apply to the latest reconciliation
FailureReasons ==
  (IF Rejected THEN {"FailedSpecCheck"} ELSE {})
  \cup (IF Reconciled /\ last.out.metricErr
        THEN {FetchFailureReason, "FailedComputeMetricsReplicas"} ELSE {})
  \cup (IF UpdateFailed THEN {"FailedUpdateScale"} ELSE {})
  \cup (IF ReplicasUpdateFailed THEN {"FailedUpdateReplicas"} ELSE {})

\* C18 (as claimed) - every failure of a reconciliation shows twice: for
\* each of the failure reasons that applies, the status of the policy, as
\* persisted or as the run leaves it in memory, holds a condition with that
\* reason and an event with that reason is recorded.
C18_FailureShownTwice ==
  \A reason \in FailureReasons :
    /\ HasReason(wpaStatus, reason) \/ HasReason(last.out.final, reason)
    /\ Emitted(reason)

\* C18 (amended) - FailedSpecCheck and the two fetch failure reasons show
\* twice: an event, and a condition in the status handed to the status
\* update, persisted when that update succeeds.  A failed scale update shows
\* as the condition reason FailedUpdateScale and the event reason
\* FailedRescale.  FailedComputeMetricsReplicas is an event only, recorded
\* when the status update after the fetch failure succeeded;
\* FailedUpdateReplicas is an event recorded when that status update, or the
\* one after a failed scale update, fails: its condition is set in memory
\* only and is never persisted.
C18_FailureShown ==
  /\ Rejected =>
       /\ Emitted("FailedSpecCheck")
       /\ HasReason(last.out.st, "FailedSpecCheck")
       /\ StatusKept => HasReason(wpaStatus, "FailedSpecCheck")
  /\ (Reconciled /\ last.out.metricErr) =>
       /\ Emitted(FetchFailureReason)
       /\ HasReason(last.out.st, FetchFailureReason)
       /\ StatusKept => HasReason(wpaStatus, FetchFailureReason)
       /\ Emitted("FailedComputeMetricsReplicas") <=> StatusKept
       /\ ~HasReason(last.out.final, "FailedComputeMetricsReplicas")
       /\ ~HasReason(wpaStatus, "FailedComputeMetricsReplicas")
  /\ UpdateFailed =>
       /\ Emitted("FailedRescale") /\ ~Emitted("FailedUpdateScale")
       /\ HasReason(last.out.st, "FailedUpdateScale")
       /\ StatusKept => HasReason(wpaStatus, "FailedUpdateScale")
  /\ ReplicasUpdateFailed =>
       /\ Emitted("FailedUpdateReplicas")
       /\ HasReason(last.out.final, "FailedUpdateReplicas")
       /\ wpaStatus = last.before
  /\ ~HasReason(wpaStatus, "FailedUpdateReplicas")

\* a failed scale update followed by a failed status update, after a
\* reconciliation whose metric fetch failed
C18_Witness ==
  /\ UpdateFailed /\ ReplicasUpdateFailed /\ last.n = 2
  /\ last.out.events = <<"FailedRescale", "FailedUpdateReplicas">>
  /\ last.prev.out.metricErr
  /\ HasReason(wpaStatus, "FailedGetResourceMetric")

\* ------------------------------------------------------------ C19, C20
\* the latest reconciliation fetched no metric
NoFetch == ~last.out.fetched /\ last.samples = <<>>

\* whether a status has scaling marked as disabled
Disabled(st) ==
  \E i \in 1..Len(st.Conditions) :
    /\ st.Conditions[i].type = "ScalingActive"
    /\ st.Conditions[i].status = "False"
    /\ st.Conditions[i].reason = "ScalingDisabled"

\* the latest reconciliation left the metric statuses as it found them
MetricsKept == last.out.st.CurrentMetrics = last.before.CurrentMetrics

\* C19: whenever the scale read has spec.replicas = 0, whatever its status
\* replicas, the bounds of the policy and the metrics, the reconciliation
\* fetches no metric, issues no scale write, leaves LastScaleTime as it was and
\* sets ScalingActive to False with reason ScalingDisabled; none of the
\* max/min/zero overrides applies
C19_ScalingDisabled ==
  (ReadScale /\ last.scale.specReplicas = 0) =>
    /\ last.out.path = "disabled"
    /\ NoFetch
    /\ ~last.out.rescale
    /\ ~last.out.updateCalled /\ ~last.out.updateOK
    /\ last.lastWrite = last.prevWrite
    /\ last.out.st.LastScaleTime = last.before.LastScaleTime
    /\ Disabled(last.out.st)
    /\ last.out.desired = last.scale.statusReplicas
    /\ StatusKept => /\ wpaStatus.LastScaleTime = last.before.LastScaleTime
                     /\ Disabled(wpaStatus)

\* a target scaled to zero after an enacted change, with more pods than
\* MaxReplicas still counted, is reconciled and the status is kept
C19_Witness ==
  /\ ReadScale /\ last.scale.specReplicas = 0
  /\ last.scale.statusReplicas > wpa.MaxReplicas
  /\ last.before.LastScaleTime # Nil
  /\ ~wpa.DryRun
  /\ StatusKept

\* the override that applies to a scale, by the order max, min, zero; Nil when
\* none does
Override(policy, statusReplicas) ==
  IF statusReplicas > policy.MaxReplicas THEN policy.MaxReplicas
  ELSE IF policy.MinReplicas # Nil /\ statusReplicas < policy.MinReplicas THEN policy.MinReplicas
  ELSE IF statusReplicas = 0 THEN 1
  ELSE Nil

\* C20: when spec.replicas of the scale read is not 0, the desired count is
\* MaxReplicas if statusReplicas > MaxReplicas, else MinReplicas if it is set
\* and statusReplicas < MinReplicas, else 1 if statusReplicas = 0; in each of
\* these cases no metric is fetched, the forced value is the one written to the
\* target when a write is issued, and CurrentMetrics keeps its value
C20_Overrides ==
  (ReadScale /\ last.scale.specReplicas # 0
   /\ Override(wpa, last.scale.statusReplicas) # Nil) =>
    /\ last.out.path \in {"max", "min", "zero"}
    /\ last.out.desired = Override(wpa, last.scale.statusReplicas)
    /\ last.out.rescale
    /\ NoFetch
    /\ MetricsKept
    /\ last.out.updateCalled => last.out.written = Override(wpa, last.scale.statusReplicas)
    /\ StatusKept => wpaStatus.CurrentMetrics = last.before.CurrentMetrics

\* a target found above MaxReplicas after a reconciliation that fetched its
\* metrics is forced down to MaxReplicas, and the status is kept
C20_Witness ==
  /\ ReadScale /\ last.scale.specReplicas # 0
  /\ last.scale.statusReplicas > wpa.MaxReplicas
  /\ last.out.desired = wpa.MaxReplicas
  /\ last.before.CurrentMetrics # <<>>
  /\ last.out.persisted

\* ------------------------------------------------------------ C21
\* the positions of the status writes among the writes of the latest
\* reconciliation
StatusWrites == {i \in 1..Len(last.out.mutations) : last.out.mutations[i] = "status"}

Evaluated == last.kind = "eval"

\* u > H*(1+t) and u < L*(1-t) for the usage u = usageNum/usageDen of a call
AboveHigh(in) == in.usageNum * 100 > in.usageDen * in.highMark * (100 + in.tolerance)
BelowLow(in) == in.usageNum * 100 < in.usageDen * in.lowMark * (100 - in.tolerance)

\* k = ceil(N*u/W) and k = floor(N*u/W), by their defining inequalities
IsCeil(k, in, mark) ==
  /\ k * in.usageDen * mark >= in.currentReplicas * in.usageNum
  /\ (k - 1) * in.usageDen * mark < in.currentReplicas * in.usageNum
IsFloor(k, in, mark) ==
  /\ k * in.usageDen * mark <= in.currentReplicas * in.usageNum
  /\ (k + 1) * in.usageDen * mark > in.currentReplicas * in.usageNum

\* C22 - Watermark evaluator: for a base count N >= 1, a usage u, watermarks
\* 0 < L <= H and a tolerance t in [0,1], getReplicaCount returns ceil(N*u/H)
\* when u > H*(1+t), otherwise max(1, floor(N*u/L)) when u < L*(1-t),
\* otherwise N; the watermark divided by is the raw one.
C22_Evaluator ==
  Evaluated =>
    LET in == last.call
        proposed == last.out[1]
    IN  /\ AboveHigh(in) => IsCeil(proposed, in, in.highMark)
        /\ (~AboveHigh(in) /\ BelowLow(in)) =>
             \E k \in 0..(3 * MaxRep * MaxRep) :
               IsFloor(k, in, in.lowMark) /\ proposed = Max2(1, k)
        /\ (~AboveHigh(in) /\ ~BelowLow(in)) => proposed = in.currentReplicas

\* a usage above the adjusted high watermark with a tolerance, where dividing
\* by the adjusted watermark would give another count
C22_Witness ==
  /\ Evaluated
  /\ last.call.tolerance = 50
  /\ AboveHigh(last.call)
  /\ last.call.usageDen > 1
  /\ last.out[1] > last.call.currentReplicas + 1

\* ------------------------------------------------------------ C23
\* the count the claim has the target settle at: max(1, MinReplicas)
Floor == LowerBound(wpa)

\* C23 (as claimed) - Progress without oscillation: with the usage staying
\* below L*(1-t), the windows elapsed, every write succeeding and the target
\* following, every enacted write strictly lowers the replica count and none
\* raises it; a reconciliation that finds the count above max(1, MinReplicas)
\* enacts a write, so that the count reaches it after finitely many of them,
\* and one that finds it there leaves it there.
C23_Progress ==
  Reconciled =>
    /\ Wrote => last.out.written < last.scale.statusReplicas
    /\ last.scale.statusReplicas > Floor => Wrote /\ last.out.written >= Floor
    /\ last.scale.statusReplicas = Floor => scale.specReplicas = Floor

\* the same, but for the write of an unchanged count by a policy that has
\* never scaled
C23_ProgressOnceScaled ==
  Reconciled =>
    /\ Wrote => \/ last.out.written < last.scale.statusReplicas
                \/ /\ last.before.LastScaleTime = Nil
                   /\ last.out.written = last.scale.statusReplicas
    /\ last.scale.statusReplicas > Floor =>
         Wrote /\ last.out.written >= Floor /\ last.out.written < last.scale.statusReplicas
    /\ last.scale.statusReplicas = Floor => scale.specReplicas = Floor

Normalized == last.kind = "normalize"

\* the upper rows of the decision table for a proposal D from N replicas
UpperRows(policy, N, D) ==
  IF D > ScaleUpCap(policy, N)
  THEN <<Min2(ScaleUpCap(policy, N), policy.MaxReplicas), "ScaleUpLimit">>
  ELSE IF D > policy.MaxReplicas
  THEN <<policy.MaxReplicas, "TooManyReplicas">>
  ELSE <<D, "DesiredWithinRange">>

\* the decision table, first match wins, with m the policy minimum (0 when
\* unset): <<result, limit reason>>
DecisionTable(policy, m, N, D) ==
  IF m = 0
  THEN IF D < 1 THEN <<1, "TooFewReplicas">> ELSE UpperRows(policy, N, D)
  ELSE IF D < ScaleDownCap(policy, N)
  THEN <<Max2(ScaleDownCap(policy, N), m), "ScaleDownLimit">>
  ELSE IF D < m
  THEN <<m, "TooFewReplicas">>
  ELSE UpperRows(policy, N, D)

TableOfCall ==
  DecisionTable(wpa, IF wpa.MinReplicas # Nil THEN wpa.MinReplicas ELSE 0,
                last.call.currentReplicas, last.call.desiredReplicas)

\* C24 (as claimed) - Normalizer decision table: for every current count N,
\* proposal D, bounds m <= M and limit factors, convertDesiredReplicasWithRules
\* returns the result and the limit reason of the first matching row: m = 0
\* gives the lower bound 1 with TooFewReplicas; D < scaleDownCap gives
\* max(scaleDownCap, m) with ScaleDownLimit; D < m gives m with TooFewReplicas;
\* D > scaleUpCap gives min(scaleUpCap, M) with ScaleUpLimit; D > M gives M
\* with TooManyReplicas; otherwise D with DesiredWithinRange.
C24_DecisionTable ==
  Normalized => last.out.conv = TableOfCall

\* the same table with the reason of the row m = 0 left open: the result of
\* every row and the reason of every other row
C24_TableButZeroRow ==
  Normalized =>
    /\ last.out.conv[1] = TableOfCall[1]
    /\ ~(wpa.MinReplicas \in {Nil, 0} /\ last.call.desiredReplicas < 1) =>
         last.out.conv[2] = TableOfCall[2]

\* C25 - ScalingLimited: after every run of the normalizer the status holds
\* the ScalingLimited condition, True if and only if the normalized value
\* differs from the proposal D it was given, and False otherwise.
C25_ScalingLimited ==
  Normalized =>
    /\ Holds(wpaStatus.Conditions, "ScalingLimited")
    /\ ConditionOf(wpaStatus, "ScalingLimited").status =
         (IF last.out.replicas # last.call.desiredReplicas THEN "True" ELSE "False")

\* a run that limits a proposal other than the current count, over a status
\* that held ScalingLimited=False
C25_Witness ==
  /\ Normalized
  /\ last.out.replicas # last.call.desiredReplicas
  /\ last.out.replicas = last.call.currentReplicas
  /\ Holds(last.before.Conditions, "ScalingLimited")
  /\ ConditionOf(last.before, "ScalingLimited").status = "False"
  /\ ConditionOf(wpaStatus, "ScalingLimited").status = "True"

Gated == last.kind = "gate"

\* T0 + Wdown > t and T0 + Wup > t for the call of the gate
DownBlocked ==
  last.before.LastScaleTime + wpa.DownscaleForbiddenWindowSeconds > last.call.timestamp
UpBlocked ==
  last.before.LastScaleTime + wpa.UpscaleForbiddenWindowSeconds > last.call.timestamp

\* the directions the gate reports as blocked in the AbleToScale condition
ReportsDown == ConditionOf(wpaStatus, "AbleToScale").reason \in {"BackoffDownscale", "BackoffBoth"}
ReportsUp == ConditionOf(wpaStatus, "AbleToScale").reason \in {"BackoffUpscale", "BackoffBoth"}

\* C26 - Cooldown gate decision: with LastScaleTime = T0 present and t the
\* timestamp the gate is given, the gate takes downscale as blocked exactly
\* when T0 + Wdown > t and upscale exactly when T0 + Wup > t (strict: t = T0 + W
\* is not blocked), and it allows enactment if and only if D > N and upscale is
\* not blocked, or D < N and downscale is not blocked; with LastScaleTime
\* absent a change D # N is allowed whatever the windows are.
C26_GateDecision ==
  Gated =>
    IF last.before.LastScaleTime # Nil
    THEN /\ ReportsDown <=> DownBlocked
         /\ ReportsUp <=> UpBlocked
         /\ last.out.rescale <=>
              \/ last.call.desiredReplicas > last.call.currentReplicas /\ ~UpBlocked
              \/ last.call.desiredReplicas < last.call.currentReplicas /\ ~DownBlocked
    ELSE last.call.desiredReplicas # last.call.currentReplicas => last.out.rescale

\* a downscale allowed at the very end of its window, t = T0 + Wdown, while
\* upscale is still blocked
C26_Witness ==
  /\ Gated
  /\ last.before.LastScaleTime # Nil
  /\ wpa.DownscaleForbiddenWindowSeconds > 0
  /\ last.call.timestamp = last.before.LastScaleTime + wpa.DownscaleForbiddenWindowSeconds
  /\ UpBlocked
  /\ last.call.desiredReplicas < last.call.currentReplicas
  /\ last.out.rescale

\* the normalized desired count D of the latest reconciliation: what
\* normalizeDesiredReplicas makes of the winning proposal, taken as 0 when it
\* is not positive
NormalizedDesired ==
  normalizeDesiredReplicas(wpa, last.before, ObservedReplicas,
                           Max2(last.out.proposal, 0), last.time)[1]

\* the latest reconciliation fetched every metric and its normalized desired
\* count is the observed count
NoChange ==
  /\ MetricDriven /\ ~last.out.metricErr
  /\ NormalizedDesired = ObservedReplicas

\* C27 - No-change never enacts: whenever the normalized desired count D
\* equals the current count N the gate answers no: no scale write is issued,
\* no SuccessfulRescale event is emitted and LastScaleTime is not set, whether
\* LastScaleTime is present or absent.
C27_NoChangeNeverEnacts ==
  NoChange =>
    /\ ~last.out.rescale
    /\ ~last.out.updateCalled
    /\ ~Emitted("SuccessfulRescale")
    /\ last.out.st.LastScaleTime = last.before.LastScaleTime

\* the same for policies that have scaled before
C27_NoChangeOnceScaled ==
  NoChange /\ last.before.LastScaleTime # Nil =>
    /\ ~last.out.rescale
    /\ ~last.out.updateCalled
    /\ ~Emitted("SuccessfulRescale")
    /\ last.out.st.LastScaleTime = last.before.LastScaleTime

\* the latest reconciliation ran the cooldown gate: it took the metric-driven
\* path and every metric was fetched
GateRan == MetricDriven /\ ~last.out.metricErr

\* the directions blocked at the timestamp the gate was given; none is when
\* LastScaleTime is absent
GateDownBlocked ==
  /\ last.before.LastScaleTime # Nil
  /\ last.before.LastScaleTime + wpa.DownscaleForbiddenWindowSeconds > last.out.timestamp
GateUpBlocked ==
  /\ last.before.LastScaleTime # Nil
  /\ last.before.LastScaleTime + wpa.UpscaleForbiddenWindowSeconds > last.out.timestamp

\* the reason of AbleToScale in the status the reconciliation hands to the
\* status update
AbleToScaleReason == ConditionOf(last.out.st, "AbleToScale").reason

BackoffReason ==
  CASE GateDownBlocked /\ GateUpBlocked -> "BackoffBoth"
    [] ~GateDownBlocked /\ GateUpBlocked -> "BackoffUpscale"
    [] GateDownBlocked /\ ~GateUpBlocked -> "BackoffDownscale"
    [] OTHER -> "ReadyForScale"

\* C28 (as claimed) - Cooldown condition reporting: in a reconciliation that
\* runs the cooldown gate the AbleToScale condition recorded in the status has
\* reason BackoffBoth when both directions are blocked, BackoffUpscale when
\* only upscale is blocked, BackoffDownscale when only downscale is blocked
\* and ReadyForScale when neither is blocked.
C28_Reporting ==
  GateRan => AbleToScaleReason = BackoffReason

\* C28 (amended) - Cooldown condition reporting: in a reconciliation that runs
\* the cooldown gate and does not enact, the AbleToScale condition recorded in
\* the status has reason BackoffBoth when both directions are blocked,
\* BackoffUpscale when only upscale is blocked, BackoffDownscale when only
\* downscale is blocked, and keeps SucceededGetScale when neither is blocked;
\* in one that enacts the condition is set to ReadyForScale, which stays the
\* recorded reason in dry-run and is replaced by SucceededRescale or
\* FailedUpdateScale according to the outcome of the scale update.
C28_ReportingWhenHeld ==
  GateRan =>
    /\ ~last.out.rescale =>
         AbleToScaleReason =
           (IF GateDownBlocked \/ GateUpBlocked THEN BackoffReason ELSE "SucceededGetScale")
    /\ last.out.rescale =>
         AbleToScaleReason =
           (IF ~last.out.updateCalled THEN "ReadyForScale"
            ELSE IF last.out.updateOK THEN "SucceededRescale" ELSE "FailedUpdateScale")

\* a downscale held back by its window alone is reported as BackoffDownscale
C28_Witness ==
  /\ GateRan /\ ~last.out.rescale
  /\ GateDownBlocked /\ ~GateUpBlocked
  /\ NormalizedDesired < ObservedReplicas
  /\ AbleToScaleReason = "BackoffDownscale"

\* the latest reconciliation was allowed to enact with DryRun false
EnactLive == Reconciled /\ last.out.rescale /\ ~wpa.DryRun

\* what a successful scale update leaves in the status and the events:
\* LastScaleTime = now, DesiredReplicas = D' and a SuccessfulRescale event
UpdateSucceeded ==
  /\ last.out.st.LastScaleTime = last.time
  /\ last.out.st.DesiredReplicas = last.out.desired
  /\ Emitted("SuccessfulRescale") /\ ~Emitted("FailedRescale")
  /\ StatusKept => /\ wpaStatus.LastScaleTime = last.time
                   /\ wpaStatus.DesiredReplicas = last.out.desired

\* what a failed scale update leaves in the status and the events
UpdateFailureRecorded ==
  /\ Emitted("FailedRescale") /\ ~Emitted("SuccessfulRescale")
  /\ ConditionOf(last.out.st, "AbleToScale").status = "False"
  /\ ConditionOf(last.out.st, "AbleToScale").reason = "FailedUpdateScale"
  /\ last.out.st.LastScaleTime = last.before.LastScaleTime
  /\ last.out.st.DesiredReplicas = last.before.DesiredReplicas
  /\ StatusKept => /\ ConditionOf(wpaStatus, "AbleToScale").status = "False"
                   /\ ConditionOf(wpaStatus, "AbleToScale").reason = "FailedUpdateScale"
                   /\ wpaStatus.LastScaleTime = last.before.LastScaleTime
                   /\ wpaStatus.DesiredReplicas = last.before.DesiredReplicas

Calculated == last.kind = "calc"

\* the call of the evaluator that goes with a base count and a divisor
EvaluatorCall(base, divisor) ==
  [currentReplicas |-> base, usageNum |-> last.call.usage, usageDen |-> divisor,
   lowMark |-> wpa.Metrics[1].LowWatermark, highMark |-> wpa.Metrics[1].HighWatermark,
   tolerance |-> wpa.Tolerance]

\* proposed is what the watermark evaluator makes of the call
EvaluatorGives(proposed, in) ==
  /\ AboveHigh(in) => IsCeil(proposed, in, in.highMark)
  /\ (~AboveHigh(in) /\ BelowLow(in)) =>
       \E k \in 0..(3 * MaxRep * MaxRep) : IsFloor(k, in, in.lowMark) /\ proposed = Max2(1, k)
  /\ (~AboveHigh(in) /\ ~BelowLow(in)) => proposed = in.currentReplicas

\* the proposal of a calculation with the base count and the divisor given;
\* a division by no ready pod gives NaN, which is inside the band, or +Inf,
\* which is converted to an end of int32
ProposalFrom(base, divisor) ==
  IF divisor = 0
  THEN IF last.call.usage = 0 THEN last.out.replicaCount = base
       ELSE last.out.replicaCount \in ConvOutcomes
  ELSE /\ EvaluatorGives(last.out.replicaCount, EvaluatorCall(base, divisor))
       /\ last.out.utilization = last.call.usage \div divisor

PodsGrouped == last.kind = "pods"

\* every fetched metric value belongs to a listed pod
MetricsOfListedPods == DOMAIN last.call.metrics \subseteq DOMAIN last.call.podList

\* C31 (as claimed) - No ready pods: whenever the readiness filter yields an
\* empty ready set the replica calculation fails with an error and yields no
\* proposal, for both algorithms; it never divides by a ready count of zero.
\* Here on the resource-metric path, from the pods and the metrics fetched.
C31_NoReadyPods ==
  PodsGrouped /\ last.out.groups.readyPods = {} => last.out.calc.err

\* the same on the external-metric path, where getReadyPodsCount counts the
\* ready pods
C31_NoReadyPodsExternal ==
  Calculated /\ wpa.Metrics[1].Type = "External" /\ last.call.ready = 0 => last.out.err

\* the same on the resource-metric path when every metric value fetched
\* belongs to a listed pod
C31_NoReadyPodsListed ==
  PodsGrouped /\ MetricsOfListedPods /\ last.out.groups.readyPods = {} => last.out.calc.err

\* the call reached the sum of the metrics left
Summed == PodsGrouped /\ ~last.out.calc.err

\* C32 (as claimed) - On the resource-metric path the usage that is summed
\* contains only samples of pods in the ready set: samples of ignored pods, of
\* missing pods and of pods that are not in the listed pod set never
\* contribute.
C32_OnlyReadyPodsSummed ==
  Summed => DOMAIN last.out.left \subseteq last.out.groups.readyPods

\* the part that holds: the samples of ignored and of missing pods never
\* contribute, and every sample of a listed pod that does is one of a ready pod
C32_ListedPodsSummed ==
  Summed =>
    /\ DOMAIN last.out.left \cap (last.out.groups.ignoredPods \cup last.out.groups.missing) = {}
    /\ DOMAIN last.out.left \cap DOMAIN last.call.podList = last.out.groups.readyPods

Aggregated == last.n = 1 /\ last.kind = "none"

\* spec i lacks a watermark, or has both and its fetch fails
Malformed(i) == wpa.Metrics[i].LowWatermark = Nil \/ wpa.Metrics[i].HighWatermark = Nil
Fails(i) == Malformed(i) \/ Calculation(i).err

\* spec i is the first, in declared order, that fails
FirstFailure(i) == Fails(i) /\ \A j \in 1..(i - 1) : ~Fails(j)

\* the error of spec i: the reason of its kind
ErrorOf(i) ==
  IF wpa.Metrics[i].Type = "External" THEN "FailedGetExternalMetric" ELSE "FailedGetResourceMetric"

DryRunCondition(st) ==
  IF Holds(st.Conditions, "DryRun") THEN ConditionOf(st, "DryRun").status ELSE Nil

\* the latest reconciliation got as far as its status update: it did not stop
\* at a failed read of the target's scale
ReachedStatusUpdate == Reconciled /\ last.out.path # "noscale"

\* the latest reconciliation returned without error and no status write of
\* its own failed
ReturnedClean == ~last.out.err /\ StatusKept

\* C34 - Status diffing: a reconciliation issues its status write if and only
\* if the status it computed differs from the status the policy had when the
\* reconciliation began; so after a reconciliation that returns without error
\* the persisted status, its DryRun condition included, equals the status the
\* reconciliation computed.
C34_StatusDiffing ==
  ReachedStatusUpdate =>
    /\ last.out.statusCall <=> (last.out.st # last.before)
    /\ ReturnedClean =>
         /\ wpaStatus = last.out.st
         /\ DryRunCondition(wpaStatus) = DryRunCondition(last.out.st)

\* C34 (what the code keeps) - the write is issued if and only if the computed
\* status differs from the beginning status in something else than the DryRun
\* condition, and after a clean return the persisted status equals the
\* computed one in all but the DryRun condition.
ButDryRun(st) ==
  [st EXCEPT !.Conditions = SelectSeq(@, LAMBDA c : c.type # "DryRun")]

C34_DiffingButDryRun ==
  ReachedStatusUpdate /\ last.out.path # "invalid" =>
    /\ last.out.statusCall => (last.out.st # last.before)
    /\ ReturnedClean => ButDryRun(wpaStatus) = ButDryRun(last.out.st)

\* C34 - a reconciliation after the switch of spec.DryRun computed nothing
\* new but the DryRun condition
C34_StaleDryRun ==
  /\ ReachedStatusUpdate /\ ReturnedClean
  /\ ~last.out.statusCall
  /\ DryRunCondition(last.out.st) # DryRunCondition(wpaStatus)

\* ------------------------------------------------------------ C35
\* an update event has been raised
EventRaised == last.kind = "event" /\ last.out.by # "none"

\* what a spec means: its quantities by their value
Meaning(spec) == [spec EXCEPT !.HighWatermark = MilliValue(@)]

StatusOnly(ev) == ev.ObjectNew.Spec = ev.ObjectOld.Spec

\* C35 - Update events: an update event enqueues a reconciliation if and only
\* if the policy's spec changed in meaning; an update of the status alone, the
\* controller's own status write included, enqueues nothing, so a
\* reconciliation is asked for by an update event only after the owner wrote
\* the spec, never as a consequence of the controller's status writes.
C35_UpdateEvents ==
  EventRaised =>
    /\ last.out.enqueued <=>
         (Meaning(last.out.event.ObjectNew.Spec) # Meaning(last.out.event.ObjectOld.Spec))
    /\ StatusOnly(last.out.event) => ~last.out.enqueued
    /\ last.out.by = "controller" => StatusOnly(last.out.event) /\ ~last.out.enqueued
    /\ "event" \in last.out.queue => last.out.edits

\* C35 - the controller wrote a changed status and nothing asks for a
\* reconciliation but the timed re-enqueue
C35_Witness ==
  /\ EventRaised
  /\ last.out.by = "controller"
  /\ last.out.event.ObjectNew.Status # last.out.event.ObjectOld.Status
  /\ last.out.queue = {} /\ last.out.timer

\* ------------------------------------------------------------ C36
\* the latest reconciliation found the policy and accepted its spec
Processed == Reconciled /\ last.out.path \notin {"notfound", "invalid"}

\* the policy exists with a valid spec
Live == last.call.exists /\ CheckWPAValidity(wpa)

\* the delay after which the latest reconciliation asked to be repeated
RepeatAfter == last.out.result.RequeueAfter

\* C36, each reconciliation: a reconciliation of an existing valid policy
\* ends with a timed re-enqueue, after the sync period when reconcileWPA
\* returned nil (normal completion, a recovered panic, a handled metric or
\* scale-update error) and after one second when it returned an error; a
\* reconciliation that ends with no requeue is one of a policy not found or
\* of an invalid spec.
RequeueScheduled ==
  /\ Processed =>
       /\ RepeatAfter = (IF last.out.err THEN retryDelay ELSE defaultSyncPeriod)
       /\ RepeatAfter > 0
       /\ last.out.panicAt # "none" => RepeatAfter = defaultSyncPeriod
       /\ last.out.metricErr /\ ~last.out.err => RepeatAfter = defaultSyncPeriod
       /\ last.out.updateCalled /\ ~last.out.updateOK /\ ~last.out.err =>
            RepeatAfter = defaultSyncPeriod
       /\ last.call.queued \/ last.call.timer
  /\ Reconciled /\ RepeatAfter = 0 /\ ~last.out.result.Requeue /\ ~last.out.result.err =>
       last.out.path \in {"notfound", "invalid"}

LostStatus(out) == out.updateOK /\ out.statusCall /\ ~out.persisted

\* the latest reconciliation followed one that lost its status
AfterLostStatus ==
  Reconciled /\ last.kind = "reconcile" /\ last.n > 1 /\ LostStatus(last.prev.out)

\* C37 - Scale write followed by a failed status write: when the scale update
\* succeeds and the status update that ends the reconciliation fails, the
\* scale write stands (no second write undoes it), the persisted status, with
\* its LastScaleTime, DesiredReplicas and conditions, stays as it was before
\* the reconciliation, and Reconcile asks for a retry after one second; the
\* next reconciliation starts from that status, so its LastScaleTime is the
\* time of the last write whose status was kept, not the time of the write
\* that was made.
C37_LostStatusWrite ==
  /\ Reconciled /\ last.kind = "reconcile" /\ LostStatus(last.out) =>
       /\ last.out.mutations = <<"scale", "status">>
       /\ last.lastWrite = last.time
       /\ wpaStatus = last.before
       /\ wpaStatus.LastScaleTime = last.before.LastScaleTime
       /\ wpaStatus.DesiredReplicas = last.before.DesiredReplicas
       /\ wpaStatus.Conditions = last.before.Conditions
       /\ last.out.err
       /\ last.out.result = Result(FALSE, retryDelay, FALSE)
  /\ AfterLostStatus =>
       /\ last.prevWrite = last.prev.time
       /\ last.before.LastScaleTime = last.prevKept
       /\ last.before.LastScaleTime = Nil /\ MetricDriven /\ ~last.out.metricErr =>
            last.out.rescale

\* C37 - the reconciliation after the lost status writes again inside the
\* forbidden windows that the unrecorded write opened
C37_Witness ==
  /\ AfterLostStatus /\ MetricDriven
  /\ last.before.LastScaleTime # last.prevWrite
  /\ last.out.updateOK
  /\ last.time < last.prevWrite + wpa.UpscaleForbiddenWindowSeconds
  /\ last.time < last.prevWrite + wpa.DownscaleForbiddenWindowSeconds

====
